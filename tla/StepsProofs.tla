----------------------------- MODULE StepsProofs -----------------------------
(***************************************************************************)
(* Steps that run others: what they run and what they leave behind.        *)
(*                                                                         *)
(* Map steps and parallel steps go over their items once.  Whatever        *)
(* yields, fails or is interrupted meanwhile, the outputs that are kept,   *)
(* the sub-conversations and the tasks that wait say which items are done. *)
(*                                                                         *)
(* A scope that is left leaves nothing behind.  The invariant says of each *)
(* task what its stack of spans and its registry of listeners hold, and of *)
(* each open conversation which listeners it has switched off: together    *)
(* they determine what listens when it is left, whoever else runs.         *)
(***************************************************************************)
EXTENDS SubFlowSteps, ExecutionScopes, FiniteSetTheorems, SequenceTheorems, TLAPS

(* Items of map steps and parallel steps.                                  *)

\* The inputs an item of a visit gives, and the sub-conversation they start.
Computed(i, visit) == [item |-> i, visit |-> visit]
Holds(sub, i, visit) == sub.item = i /\ sub.visit = visit
Waiting == subTasks \cup subActive

\* A map: what is done is in the outputs, and the sub-conversation, if there is
\* one, is that of the item after.
MapInv ==
    LET next == subIndex + 1
        outputs(n) == [i \in 1..n |-> Computed(i, subVisit)]
    IN
    /\ subTasks = {} /\ subActive \subseteq {next}
    /\ subActive # {} => subPc = "running" /\ subConv[1] # NoSub
    /\ \/ subConv[1] = NoSub
       \/ subIndex < subItems /\ Holds(subConv[1], next, subVisit)
    /\ subOutputs = outputs(subIndex)
    /\ subPc = "away" => subIndex = 0 /\ subConv[1] = NoSub
                         /\ (subVisit > 0 => subResult = outputs(subItems))
    /\ \A i \in 1..subItems :
          subRuns[i] = IF subPc = "away" \/ i <= subIndex \/ (i = next /\ subConv[1].ended)
                       THEN 1 ELSE 0

\* Parallel tasks: what no longer waits has ended.
TasksInv ==
    /\ Waiting \subseteq 1..subItems
    /\ subPc # "running" => Waiting = {}
    /\ subIndex = 0 /\ subOutputs = <<>>
    /\ (subPc = "running" /\ ~subHalted) =>
          \A i \in 1..subItems : i \notin Waiting => subConv[i].ended

ParallelMapInv ==
    /\ ~subHalted
    /\ \A i \in 1..subItems : /\ Holds(subConv[i], i, subVisit)
                              /\ subConv[i].ended => subRuns[i] # 0
    /\ subPc = "away" =>
          /\ subResult = [i \in 1..subItems |-> Computed(i, subVisit)]
          /\ \A i \in 1..subItems : subConv[i].ended

FlowsInv ==
    /\ subItems = SubFlows
    /\ \A i \in 1..SubFlows :
          /\ Holds(subConv[i], i, 1)
          /\ subPc = "away" \/ subVisit > 1 => subConv[i].ended
          /\ subRuns[i] = IF subVisit = 1 /\ subConv[i].ended THEN 1 ELSE 0
    /\ subPc = "away" => subResult = [i \in 1..SubFlows |-> Computed(i, 1)]

\* The variables but the flag, and the flag.
SubTyped ==
    /\ subKind \in SubKinds /\ subPc \in {"away", "running", "stopped"}
    /\ subVisit \in 0..SubMaxVisits /\ subItems \in 0..Cardinality(Indices)
    /\ subConv \in [Indices -> SubConversations]
    /\ subTasks \subseteq Indices /\ subActive \subseteq Indices
    /\ subIndex \in 0..subItems
    /\ subOutputs \in Seq(SubOutput) /\ subResult \in Seq(SubOutput)
    /\ subRuns \in [Indices -> 0..Many]
FlagTyped == subHalted \in BOOLEAN

SubInv ==
    /\ SubTypeOK
    /\ subVisit = 0 => subPc = "away" /\ subItems = 0 /\ \A i \in Indices : subConv[i] = NoSub
    /\ subKind = "map" => MapInv
    /\ subKind # "map" => TasksInv
    /\ subKind = "parallelMap" /\ subVisit > 0 => ParallelMapInv
    /\ subKind = "flows" /\ subVisit > 0 => FlowsInv

\* Numbers of items are numbers of indices.
LEMMA ItemsAreIndices ==
    /\ 1 \in Indices /\ Indices \subseteq Nat /\ SubFlows \in 0..Cardinality(Indices)
    /\ \A n \in 0..Cardinality(Indices) : n \in Nat /\ 1..n \subseteq Indices
    /\ Cardinality(Indices) \in Nat
<1> DEFINE n == IF SubFlows > SubMaxItems THEN SubFlows ELSE SubMaxItems
<1>1. n \in Nat /\ n >= 1 /\ SubFlows <= n /\ SubFlows \in Nat
  BY SubAssumption
<1>2. Indices = 1..n
  BY DEF Indices
<1> HIDE DEF n
<1>3. Cardinality(Indices) = n
  BY <1>1, <1>2, FS_Interval
<1> QED BY <1>1, <1>2, <1>3

LEMMA SubKeys ==
    ASSUME NEW i \in Indices
    PROVE  Key(i) \in Indices /\ (subKind = "map" => Key(i) = 1)
                              /\ (subKind # "map" => Key(i) = i)
BY ItemsAreIndices DEF Key, Parallel

\* A sub-conversation runs to its end, or is found ended.
LEMMA SubEnds ==
    ASSUME SubTypeOK, NEW i \in Indices
    PROVE  /\ Ended(i) \in [Indices -> SubConversations]
           /\ Ended(i)[Key(i)].ended
           /\ \A j \in Indices : /\ Ended(i)[j].item = subConv[j].item
                                 /\ Ended(i)[j].visit = subConv[j].visit
                                 /\ j # Key(i) => Ended(i)[j] = subConv[j]
<1>1. Key(i) \in Indices
  BY SubKeys
<1>2. PICK k \in Indices : k = Key(i)
  BY <1>1
<1>3. PICK sub \in SubConversations : sub = subConv[k]
  BY DEF SubTypeOK
<1>4. PICK new : new = [sub EXCEPT !.ended = TRUE]
  OBVIOUS
<1>5. new \in SubConversations /\ new.item = sub.item /\ new.visit = sub.visit /\ new.ended
  BY <1>3, <1>4 DEF SubConversations
<1>6. Ended(i) = [subConv EXCEPT ![k] = new]
  BY <1>2, <1>3, <1>4 DEF Ended
<1>7. subConv \in [Indices -> SubConversations]
  BY DEF SubTypeOK
<1> QED BY <1>2, <1>3, <1>5, <1>6, <1>7

LEMMA SubRunsOnce ==
    ASSUME SubTypeOK, NEW i \in Indices, RunToEnd(i)
    PROVE  /\ subRuns' \in [Indices -> 0..Many]
           /\ \A j \in Indices : j # i => subRuns'[j] = subRuns[j]
           /\ subConv[Key(i)].ended => subRuns'[i] = subRuns[i]
           /\ ~subConv[Key(i)].ended =>
                 subRuns'[i] = IF subRuns[i] = Many THEN Many ELSE subRuns[i] + 1
<1>1. subRuns \in [Indices -> 0..2]
  BY DEF SubTypeOK, Many
<1>2. CASE subConv[Key(i)].ended
  <2>1. subRuns' = [subRuns EXCEPT ![i] = @]
    BY <1>2 DEF RunToEnd
  <2> QED BY <1>1, <1>2, <2>1 DEF Many
<1>3. CASE ~subConv[Key(i)].ended
  <2>1. subRuns' = [subRuns EXCEPT ![i] = IF @ = 2 THEN @ ELSE @ + 1]
    BY <1>3 DEF RunToEnd, Many
  <2> QED BY <1>1, <1>3, <2>1 DEF Many
<1> QED BY <1>2, <1>3

\* The conversations at the beginning of an execution of the step.
LEMMA SubSetUp ==
    ASSUME SubTypeOK, NEW n \in 0..Cardinality(Indices), NEW v \in 1..SubMaxVisits,
           Setup(n, v)
    PROVE  /\ subConv' \in [Indices -> SubConversations]
           /\ \A i \in Indices : subConv'[i] =
                 IF i \in 1..n /\ (subKind = "parallelMap"
                                   \/ (subKind = "flows" /\ subConv[i] = NoSub))
                 THEN NewSub(i, v) ELSE subConv[i]
           /\ subPc' = "running" /\ subHalted' = FALSE /\ subActive' = {}
           /\ subTasks' = (IF subKind = "map" THEN {} ELSE 1..n)
           /\ subTasks' \subseteq Indices
           /\ UNCHANGED <<subKind, subIndex, subOutputs, subResult>>
<1>1. \A i \in Indices : NewSub(i, v) \in SubConversations
  BY SubAssumption DEF NewSub, SubConversations
<1>2. subConv' = [i \in Indices |->
          IF i \in 1..n /\ (subKind = "parallelMap" \/ (subKind = "flows" /\ subConv[i] = NoSub))
             THEN NewSub(i, v) ELSE subConv[i]]
  BY DEF Setup
<1>3. subConv \in [Indices -> SubConversations]
  BY DEF SubTypeOK
<1>4. 1..n \subseteq Indices
  BY ItemsAreIndices
<1> QED BY <1>1, <1>2, <1>3, <1>4 DEF Setup, Parallel, subLoopVars
LEMMA SubTypeParts == SubTypeOK <=> SubTyped /\ FlagTyped
BY Zenon DEF SubTypeOK, SubTyped, FlagTyped

LEMMA SubTypeNext == SubTyped' /\ FlagTyped' => SubTypeOK'
BY Zenon DEF SubTypeOK, SubTyped, FlagTyped

LEMMA SubParts ==
    ASSUME SubInv
    PROVE  /\ SubTypeOK /\ SubTyped /\ FlagTyped
           /\ subVisit = 0 => subPc = "away" /\ subItems = 0
                              /\ \A i \in Indices : subConv[i] = NoSub
           /\ subKind = "map" => MapInv
           /\ subKind # "map" => TasksInv
           /\ (subKind = "parallelMap" /\ subVisit > 0) => ParallelMapInv
           /\ (subKind = "flows" /\ subVisit > 0) => FlowsInv
BY SubTypeParts, Zenon DEF SubInv

\* The step has been visited after every step.
LEMMA SubPartsNext ==
    ASSUME SubTyped', FlagTyped', subVisit' # 0,
           subKind' = "map" => MapInv',
           subKind' # "map" => TasksInv',
           subKind' = "parallelMap" => ParallelMapInv',
           subKind' = "flows" => FlowsInv'
    PROVE  SubInv'
BY SubTypeNext, Zenon DEF SubInv

LEMMA NoSubFields ==
    /\ NoSub.item = 0 /\ ~NoSub.ended
    /\ \A i, v : /\ NewSub(i, v).item = i /\ NewSub(i, v).visit = v
                 /\ ~NewSub(i, v).ended
BY DEF NoSub, NewSub

LEMMA SubInitial == SubInit => SubInv
<1> SUFFICES ASSUME SubInit PROVE SubInv
  OBVIOUS
<1>1. NoSub \in SubConversations /\ 0 \in 0..Cardinality(Indices)
  BY ItemsAreIndices, SubAssumption DEF NoSub, SubConversations
<1>2. SubTyped
  BY <1>1, SubAssumption DEF SubInit, SubTyped, Many
<1>5. FlagTyped
  BY DEF SubInit, FlagTyped
<1>3. MapInv
  BY ItemsAreIndices DEF SubInit, MapInv
<1>4. TasksInv
  BY DEF SubInit, TasksInv, Waiting
<1> QED BY <1>2, <1>3, <1>4, <1>5, SubTypeParts DEF SubInit, SubInv

LEMMA VisitInv ==
    ASSUME SubInv, NEW n \in 0..Cardinality(Indices), Visit(n)
    PROVE  SubInv'
<1> DEFINE v == subVisit + 1
<1>1. /\ subPc = "away" /\ v \in 1..SubMaxVisits /\ subVisit' = v /\ subItems' = n
      /\ subKind = "flows" => n = SubFlows
      /\ subRuns' = [i \in Indices |-> 0]
  BY SubParts, SubAssumption DEF Visit, SubTyped
<1>2. /\ subConv' \in [Indices -> SubConversations]
      /\ \A i \in Indices : subConv'[i] =
            IF i \in 1..n /\ (subKind = "parallelMap"
                              \/ (subKind = "flows" /\ subConv[i] = NoSub))
            THEN NewSub(i, v) ELSE subConv[i]
      /\ subPc' = "running" /\ subHalted' = FALSE /\ subActive' = {}
      /\ subTasks' = (IF subKind = "map" THEN {} ELSE 1..n)
      /\ subTasks' \subseteq Indices
      /\ UNCHANGED <<subKind, subIndex, subOutputs, subResult>>
  <2> HIDE DEF v
  <2>1. Setup(n, v)
    BY DEF Visit, v
  <2> QED BY <1>1, <2>1, SubSetUp, SubParts
<1> HIDE DEF v
<1>3. n \in Nat /\ 1..n \subseteq Indices /\ v \in Nat /\ v > 0
  BY <1>1, ItemsAreIndices, SubAssumption
<1>4. subKind \in {"map", "parallelMap", "flows"} /\ subIndex = 0 /\ subOutputs \in Seq(SubOutput)
  BY <1>1, SubParts DEF SubTyped, MapInv, TasksInv, SubKinds
<1>5. SubTyped'
  BY <1>1, <1>2, <1>3, <1>4, SubParts, SubAssumption DEF SubTyped, Many
<1>10. FlagTyped'
  BY <1>2 DEF FlagTyped
<1>6. ASSUME subKind = "map" PROVE MapInv'
  <2>1. /\ subConv[1] = NoSub /\ subConv'[1] = NoSub
        /\ subOutputs = <<>> /\ subTasks' = {}
    BY <1>1, <1>2, <1>6, ItemsAreIndices, SubParts DEF MapInv
  <2>2. \A i \in 1..n : subRuns'[i] = 0 /\ i > 0
    BY <1>1, <1>3
  <2> QED BY <1>1, <1>2, <1>4, <2>1, <2>2, NoSubFields DEF MapInv
<1>7. ASSUME subKind # "map" PROVE TasksInv'
  BY <1>1, <1>2, <1>4, <1>7, SubParts DEF TasksInv, Waiting
<1>8. ASSUME subKind = "parallelMap" PROVE ParallelMapInv'
  BY <1>1, <1>2, <1>3, <1>8, NoSubFields DEF ParallelMapInv, Holds
<1>9. ASSUME subKind = "flows" PROVE FlowsInv'
  <2>1. ASSUME subVisit = 0, NEW i \in 1..SubFlows
        PROVE  subConv'[i] = NewSub(i, 1) /\ v = 1 /\ subRuns'[i] = 0
    BY <1>1, <1>2, <1>3, <1>9, <2>1, SubParts DEF v
  <2>2. ASSUME subVisit # 0, NEW i \in 1..SubFlows
        PROVE  subConv'[i] = subConv[i] /\ v > 1 /\ subRuns'[i] = 0
               /\ Holds(subConv[i], i, 1) /\ subConv[i].ended
    <3>1. subVisit > 0 /\ v > 1
      BY <1>1, <2>2, SubParts, SubAssumption DEF SubTyped, v
    <3>2. Holds(subConv[i], i, 1) /\ subConv[i].ended /\ i \in Indices /\ i > 0
      BY <1>1, <1>3, <1>9, <3>1, SubParts DEF FlowsInv
    <3>3. subConv[i] # NoSub
      BY <3>2, NoSubFields DEF Holds
    <3> QED BY <1>1, <1>2, <1>3, <1>9, <3>1, <3>2, <3>3
  <2>3. CASE subVisit = 0
    BY <1>1, <1>2, <1>9, <2>1, <2>3, NoSubFields DEF FlowsInv, Holds
  <2>4. CASE subVisit # 0
    BY <1>1, <1>2, <1>3, <1>9, <2>2, <2>4 DEF FlowsInv, Holds
  <2> QED BY <2>3, <2>4
<1>11. subVisit' # 0 /\ subKind' = subKind
  BY <1>1, <1>2, <1>3
<1> QED
  BY <1>5, <1>6, <1>7, <1>8, <1>9, <1>10, <1>11, SubPartsNext, Zenon

LEMMA ResumeInv ==
    ASSUME SubInv, Resume
    PROVE  SubInv'
<1>1. /\ subPc = "stopped" /\ UNCHANGED <<subVisit, subItems, subRuns>>
      /\ subVisit \in 1..SubMaxVisits /\ subItems \in 0..Cardinality(Indices)
  BY SubParts, SubAssumption DEF Resume, SubTyped
<1>2. /\ subConv' \in [Indices -> SubConversations]
      /\ \A i \in Indices : subConv'[i] =
            IF i \in 1..subItems /\ (subKind = "parallelMap"
                                     \/ (subKind = "flows" /\ subConv[i] = NoSub))
            THEN NewSub(i, subVisit) ELSE subConv[i]
      /\ subPc' = "running" /\ subHalted' = FALSE /\ subActive' = {}
      /\ subTasks' = (IF subKind = "map" THEN {} ELSE 1..subItems)
      /\ subTasks' \subseteq Indices
      /\ UNCHANGED <<subKind, subIndex, subOutputs, subResult>>
  BY <1>1, SubSetUp, SubParts DEF Resume
<1>3. /\ subItems \in Nat /\ 1..subItems \subseteq Indices /\ subVisit \in Nat
      /\ subVisit > 0 /\ subKind \in {"map", "parallelMap", "flows"}
  BY <1>1, SubParts, ItemsAreIndices, SubAssumption DEF SubTyped, SubKinds
<1>4. SubTyped'
  BY <1>1, <1>2, SubParts DEF SubTyped
<1>9. FlagTyped'
  BY <1>2 DEF FlagTyped
<1>10. subVisit' # 0 /\ subKind' = subKind
  BY <1>1, <1>2, <1>3
<1>5. ASSUME subKind = "map" PROVE MapInv'
  <2>1. subConv'[1] = subConv[1] /\ subTasks' = {}
    BY <1>2, <1>5, ItemsAreIndices
  <2> QED BY <1>1, <1>2, <1>5, <2>1 DEF SubInv, MapInv, Holds
<1>6. ASSUME subKind # "map" PROVE TasksInv'
  BY <1>1, <1>2, <1>6, SubParts DEF TasksInv, Waiting
<1>7. ASSUME subKind = "parallelMap" PROVE ParallelMapInv'
  BY <1>1, <1>2, <1>3, <1>7, NoSubFields DEF ParallelMapInv, Holds
<1>8. ASSUME subKind = "flows" PROVE FlowsInv'
  <2>1. FlowsInv
    BY <1>3, <1>8, SubParts
  <2>2. ASSUME NEW i \in 1..SubFlows PROVE subConv'[i] = subConv[i]
    BY <1>2, <1>3, <1>8, <2>1, NoSubFields DEF FlowsInv, Holds
  <2> QED BY <1>1, <1>2, <2>1, <2>2 DEF FlowsInv, Holds
<1> QED
  BY <1>4, <1>5, <1>6, <1>7, <1>8, <1>9, <1>10, SubPartsNext, Zenon
\* While the step runs or is stopped the flow is visiting it.
LEMMA SubVisiting ==
    ASSUME SubInv, subPc # "away"
    PROVE  /\ subVisit \in 1..SubMaxVisits /\ subVisit \in Nat /\ subVisit > 0
           /\ subItems \in Nat /\ 1..subItems \subseteq Indices
           /\ subIndex \in 0..subItems /\ subIndex \in Nat
           /\ subKind = "map" => MapInv
           /\ subKind # "map" => TasksInv
           /\ subKind = "parallelMap" => ParallelMapInv
           /\ subKind = "flows" => FlowsInv
<1>1. subVisit # 0
  BY SubParts
<1>2. /\ subVisit \in 1..SubMaxVisits /\ subVisit \in Nat /\ subVisit > 0
      /\ subItems \in Nat /\ 1..subItems \subseteq Indices
      /\ subIndex \in 0..subItems /\ subIndex \in Nat
  BY <1>1, SubParts, SubAssumption, ItemsAreIndices DEF SubTyped
<1> QED BY <1>2, SubParts

LEMMA SubOutputs ==
    ASSUME NEW i \in Indices, NEW j \in Indices, NEW v \in 1..SubMaxVisits,
           Holds(subConv[Key(i)], j, v)
    PROVE  Output(i) = Computed(j, v) /\ Output(i) \in SubOutput
BY DEF Output, Holds, Computed, SubOutput

\* The item a map is at.
LEMMA MapItem ==
    ASSUME SubInv, subPc # "away", subKind = "map", NEW i \in subActive
    PROVE  /\ i = subIndex + 1 /\ i \in Indices /\ i \in 1..subItems /\ subIndex < subItems
           /\ subConv[1] # NoSub /\ Holds(subConv[1], i, subVisit) /\ Key(i) = 1
           /\ subActive = {i} /\ subPc = "running"
           /\ subRuns[i] = IF subConv[1].ended THEN 1 ELSE 0
<1>1. MapInv
  BY SubVisiting
<1>2. /\ i = subIndex + 1 /\ subConv[1] # NoSub /\ subIndex < subItems /\ subActive = {i}
      /\ Holds(subConv[1], i, subVisit) /\ subPc = "running"
  BY <1>1 DEF MapInv
<1>3. i \in 1..subItems /\ i \in Indices /\ ~(i <= subIndex)
  BY <1>2, SubVisiting
<1>4. subRuns[i] = IF subConv[1].ended THEN 1 ELSE 0
  BY <1>1, <1>2, <1>3 DEF MapInv
<1> QED BY <1>2, <1>3, <1>4, SubKeys

LEMMA StartItemInv == ASSUME SubInv, StartItem PROVE SubInv'
<1>1. /\ subPc = "running" /\ subKind = "map" /\ subActive = {} /\ subIndex < subItems
      /\ subActive' = {subIndex + 1}
      /\ UNCHANGED <<subKind, subPc, subVisit, subItems, subTasks, subHalted,
                     subIndex, subOutputs, subResult, subRuns>>
  BY DEF StartItem, subLoopVars
<1>2. MapInv /\ subVisit \in 1..SubMaxVisits /\ subIndex + 1 \in 1..subItems
      /\ subIndex + 1 \in Indices /\ subIndex + 1 # 0
  BY <1>1, SubVisiting
<1>3. PICK new : new = IF subConv[1] = NoSub THEN NewSub(subIndex + 1, subVisit)
                       ELSE subConv[1]
  OBVIOUS
<1>4. subConv' = [subConv EXCEPT ![1] = new]
  BY <1>3 DEF StartItem
<1>5. /\ new \in SubConversations /\ new # NoSub /\ Holds(new, subIndex + 1, subVisit)
      /\ new.ended <=> subConv[1].ended
  <2>1. CASE subConv[1] = NoSub
    <3>1. NewSub(subIndex + 1, subVisit) \in SubConversations
      BY <1>2, SubAssumption DEF NewSub, SubConversations
    <3> QED BY <2>1, <1>2, <1>3, <3>1, NoSubFields DEF Holds
  <2>2. CASE subConv[1] # NoSub
    BY <2>2, <1>2, <1>3, SubParts, ItemsAreIndices DEF MapInv, SubTyped
  <2> QED BY <2>1, <2>2
<1>6. subConv' \in [Indices -> SubConversations] /\ subConv'[1] = new
  BY <1>4, <1>5, SubParts, ItemsAreIndices DEF SubTyped
<1>7. SubTyped'
  BY <1>1, <1>2, <1>6, SubParts DEF SubTyped
<1>8. FlagTyped'
  BY <1>1, SubParts, Zenon DEF FlagTyped
<1>9. MapInv'
  BY <1>1, <1>2, <1>5, <1>6 DEF MapInv, Holds
<1>10. subVisit' # 0 /\ subKind' = "map"
  BY <1>1, SubVisiting
<1> QED BY <1>7, <1>8, <1>9, <1>10, SubPartsNext

LEMMA ItemFinishesInv ==
    ASSUME SubInv, NEW i \in Indices, ItemFinishes(i) PROVE SubInv'
<1>1. /\ subKind = "map" /\ i \in subActive /\ RunToEnd(i)
      /\ subConv' = [subConv EXCEPT ![1] = NoSub]
      /\ subIndex' = subIndex + 1 /\ subOutputs' = Append(subOutputs, Output(i))
      /\ subActive' = {}
      /\ UNCHANGED <<subKind, subPc, subVisit, subItems, subTasks, subHalted, subResult>>
  BY DEF ItemFinishes
<1>2. subPc # "away"
  BY <1>1, SubParts DEF MapInv
<1>3. /\ i = subIndex + 1 /\ i \in 1..subItems /\ Holds(subConv[1], i, subVisit)
      /\ subIndex < subItems /\ subPc = "running"
      /\ Key(i) = 1 /\ subRuns[i] = IF subConv[1].ended THEN 1 ELSE 0
  BY <1>1, <1>2, MapItem
<1>4. MapInv /\ subVisit \in 1..SubMaxVisits /\ subIndex \in Nat /\ subItems \in Nat
  BY <1>1, <1>2, SubVisiting
<1>5. Output(i) = Computed(i, subVisit) /\ Output(i) \in SubOutput
  BY <1>3, <1>4, SubOutputs
<1>6. /\ subRuns' \in [Indices -> 0..Many] /\ subRuns'[i] = 1
      /\ \A j \in Indices : j # i => subRuns'[j] = subRuns[j]
  BY <1>1, <1>3, SubRunsOnce, SubParts DEF Many
<1>7. subConv' \in [Indices -> SubConversations] /\ subConv'[1] = NoSub
  <2>1. NoSub \in SubConversations
    BY SubAssumption DEF NoSub, SubConversations
  <2> QED BY <1>1, <2>1, SubParts, ItemsAreIndices DEF SubTyped
<1>8. SubTyped'
  BY <1>1, <1>3, <1>4, <1>5, <1>6, <1>7, SubParts DEF SubTyped
<1>9. FlagTyped'
  BY <1>1, SubParts, Zenon DEF FlagTyped
<1>10. subOutputs' = [j \in 1..i |-> Computed(j, subVisit)]
  BY <1>1, <1>3, <1>4, <1>5 DEF MapInv
<1>11. \A j \in 1..subItems :
          subRuns'[j] = IF j <= i THEN 1 ELSE 0
  <2> SUFFICES ASSUME NEW j \in 1..subItems PROVE subRuns'[j] = IF j <= i THEN 1 ELSE 0
    OBVIOUS
  <2>1. j \in Indices
    BY <1>2, SubVisiting
  <2>2. CASE j = i
    BY <2>2, <1>6, <1>3, <1>4
  <2>3. CASE j # i
    <3>1. subRuns[j] = IF j <= subIndex THEN 1 ELSE 0
      BY <2>3, <1>3, <1>4 DEF MapInv
    <3> QED BY <2>1, <2>3, <3>1, <1>3, <1>4, <1>6
  <2> QED BY <2>2, <2>3
<1>12. MapInv'
  BY <1>1, <1>3, <1>4, <1>7, <1>10, <1>11, NoSubFields DEF MapInv
<1>13. subVisit' # 0 /\ subKind' = "map"
  BY <1>1, <1>4
<1> QED BY <1>8, <1>9, <1>12, <1>13, SubPartsNext

LEMMA LeaveMapInv == ASSUME SubInv, LeaveMap PROVE SubInv'
<1>1. /\ subPc = "running" /\ subKind = "map" /\ subActive = {} /\ subIndex = subItems
      /\ subResult' = subOutputs /\ subIndex' = 0 /\ subOutputs' = <<>> /\ subPc' = "away"
      /\ UNCHANGED <<subKind, subVisit, subItems, subConv, subTasks, subActive, subHalted,
                     subRuns>>
  BY DEF LeaveMap, subTaskVars
<1>2. MapInv /\ subVisit > 0 /\ subItems \in Nat
  BY <1>1, SubVisiting
<1>3. subConv[1] = NoSub
  BY <1>1, <1>2 DEF MapInv
<1>4. \A i \in 1..subItems : subRuns[i] = 1
  BY <1>1, <1>2 DEF MapInv
<1>5. MapInv'
  BY <1>1, <1>2, <1>3, <1>4 DEF MapInv
<1>6. SubTyped'
  BY <1>1, <1>2, SubParts DEF SubTyped
<1>7. FlagTyped'
  BY <1>1, SubParts, Zenon DEF FlagTyped
<1>8. subVisit' # 0 /\ subKind' = "map"
  BY <1>1, <1>2, SubVisiting
<1> QED BY <1>5, <1>6, <1>7, <1>8, SubPartsNext
\* The step stops, or a task starts: the items are as they were.
LEMMA SubKept ==
    ASSUME SubInv, subPc # "away", subPc' \in {"running", "stopped"},
           UNCHANGED <<subKind, subVisit, subItems, subConv, subIndex, subOutputs, subResult,
                       subRuns>>,
           FlagTyped', subKind # "flows" => subHalted' = subHalted,
           subTasks' \subseteq subTasks, subActive' \subseteq Indices,
           subKind = "map" => subActive' = {},
           subKind # "map" => TasksInv'
    PROVE  SubInv'
<1>1. SubTyped'
  BY SubParts DEF SubTyped
<1>2. ASSUME subKind = "map" PROVE MapInv'
  <2>1. MapInv
    BY <1>2, SubVisiting
  <2> QED BY <1>2, <2>1 DEF MapInv, Holds
<1>3. ASSUME subKind = "parallelMap" PROVE ParallelMapInv'
  <2>1. ParallelMapInv /\ subHalted' = subHalted
    BY <1>3, SubVisiting
  <2> QED BY <2>1 DEF ParallelMapInv, Holds
<1>4. ASSUME subKind = "flows" PROVE FlowsInv'
  <2>1. FlowsInv
    BY <1>4, SubVisiting
  <2> QED BY <2>1 DEF FlowsInv, Holds
<1>5. subVisit' # 0 /\ subKind' = subKind
  BY SubVisiting
<1> QED BY <1>1, <1>2, <1>3, <1>4, <1>5, SubPartsNext

LEMMA StartTaskInv == ASSUME SubInv, NEW i \in Indices, StartTask(i) PROVE SubInv'
<1>1. /\ i \in subTasks /\ subTasks' = subTasks \ {i} /\ subActive' = subActive \cup {i}
      /\ UNCHANGED <<subKind, subPc, subVisit, subItems, subConv, subHalted, subIndex,
                     subOutputs, subResult, subRuns>>
  BY DEF StartTask, subLoopVars
<1>2. subKind # "map" /\ TasksInv
  BY <1>1, SubParts DEF MapInv
<1>3. subPc = "running"
  BY <1>1, <1>2 DEF TasksInv, Waiting
<1>4. TasksInv'
  BY <1>1, <1>2 DEF TasksInv, Waiting
<1>5. FlagTyped'
  BY <1>1, SubParts, Zenon DEF FlagTyped
<1>6. subActive' \subseteq Indices
  BY <1>1, SubParts DEF SubTyped
<1> QED BY <1>1, <1>2, <1>3, <1>4, <1>5, <1>6, SubKept

LEMMA StopsInv ==
    ASSUME SubInv, NEW i \in Indices, Yields(i) \/ Raises(i) PROVE SubInv'
<1>1. /\ i \in subActive /\ subTasks' \subseteq subTasks /\ subActive' = {}
      /\ subPc' = "stopped"
      /\ UNCHANGED <<subKind, subVisit, subItems, subConv, subHalted, subIndex,
                     subOutputs, subResult, subRuns>>
      /\ subKind # "map" => subTasks' = {}
  BY DEF Yields, Raises, subLoopVars
<1>2. subPc # "away"
  BY <1>1, SubParts DEF MapInv, TasksInv, Waiting
<1>3. ASSUME subKind # "map" PROVE TasksInv'
  BY <1>1, <1>3, SubParts DEF TasksInv, Waiting
<1>4. FlagTyped'
  BY <1>1, SubParts, Zenon DEF FlagTyped
<1> QED BY <1>1, <1>2, <1>3, <1>4, SubKept

LEMMA HaltInv == ASSUME SubInv, Halt PROVE SubInv'
<1>1. /\ subPc = "running" /\ subKind # "map" /\ subTasks = {} /\ subActive = {}
      /\ subPc' = "stopped"
      /\ UNCHANGED <<subKind, subVisit, subItems, subConv, subTasks, subActive, subHalted,
                     subIndex, subOutputs, subResult, subRuns>>
  BY DEF Halt, TasksEnd, Parallel, subLoopVars, subTaskVars
<1>2. TasksInv'
  BY <1>1, SubParts DEF TasksInv, Waiting
<1>3. FlagTyped'
  BY <1>1, SubParts, Zenon DEF FlagTyped
<1> QED BY <1>1, <1>2, <1>3, SubKept

\* A sub-conversation runs to its end, or is found ended.
LEMMA TaskEnds ==
    ASSUME SubInv, NEW i \in subActive, i \in Indices, subKind # "map", RunToEnd(i),
           subConv' = Ended(i), subActive' = subActive \ {i}, FlagTyped',
           subPc' = "running",
           (subKind = "parallelMap" \/ ~subHalted') => subHalted' = subHalted,
           UNCHANGED <<subKind, subVisit, subItems, subTasks, subIndex, subOutputs, subResult>>
    PROVE  SubInv'
<1>1. TasksInv /\ Key(i) = i
  BY SubParts, SubKeys
<1>2. subPc = "running" /\ i \in 1..subItems
  BY <1>1, SubParts DEF TasksInv, Waiting, SubTyped
<1>3. /\ subConv' \in [Indices -> SubConversations]
      /\ subConv'[i].ended
      /\ \A j \in Indices : /\ subConv'[j].item = subConv[j].item
                            /\ subConv'[j].visit = subConv[j].visit
                            /\ j # i => subConv'[j] = subConv[j]
  BY <1>1, SubEnds, SubParts
<1>4. /\ subRuns' \in [Indices -> 0..Many]
      /\ \A j \in Indices : j # i => subRuns'[j] = subRuns[j]
      /\ subConv[i].ended => subRuns'[i] = subRuns[i]
      /\ ~subConv[i].ended => subRuns'[i] = IF subRuns[i] = Many THEN Many ELSE subRuns[i] + 1
  BY <1>1, SubRunsOnce, SubParts
<1>5. SubTyped'
  BY <1>2, <1>3, <1>4, SubParts DEF SubTyped
<1>6. 1..subItems \subseteq Indices /\ subRuns[i] \in 0..2
  BY <1>2, SubVisiting, SubParts DEF SubTyped, Many
<1>7. TasksInv'
  <2>1. ASSUME ~subHalted', NEW j \in 1..subItems, j \notin Waiting'
        PROVE  subConv'[j].ended
    <3>1. CASE j = i
      BY <3>1, <1>3
    <3>2. CASE j # i
      BY <3>2, <2>1, <1>1, <1>2, <1>3, <1>6 DEF TasksInv, Waiting
    <3> QED BY <3>1, <3>2
  <2>2. Waiting' \subseteq Waiting
    BY DEF Waiting
  <2> QED BY <1>1, <2>1, <2>2 DEF TasksInv
<1>8. ASSUME subKind = "parallelMap" PROVE ParallelMapInv'
  <2>1. ParallelMapInv
    BY <1>2, <1>8, SubVisiting
  <2>2. ASSUME NEW j \in 1..subItems
        PROVE  Holds(subConv'[j], j, subVisit) /\ (subConv'[j].ended => subRuns'[j] # 0)
    <3>1. j \in Indices /\ Holds(subConv[j], j, subVisit) /\ (subConv[j].ended => subRuns[j] # 0)
      BY <1>6, <2>1 DEF ParallelMapInv
    <3>2. CASE j = i
      BY <3>1, <3>2, <1>3, <1>4, <1>6 DEF Holds, Many
    <3>3. CASE j # i
      BY <3>1, <3>3, <1>3, <1>4
    <3> QED BY <3>2, <3>3
  <2> QED BY <1>8, <2>1, <2>2 DEF ParallelMapInv
<1>9. ASSUME subKind = "flows" PROVE FlowsInv'
  <2>1. FlowsInv /\ subVisit \in Nat
    BY <1>2, <1>9, SubVisiting
  <2>2. ASSUME NEW j \in 1..SubFlows
        PROVE  /\ Holds(subConv'[j], j, 1) /\ (subVisit > 1 => subConv'[j].ended)
               /\ subRuns'[j] = IF subVisit = 1 /\ subConv'[j].ended THEN 1 ELSE 0
    <3>1. /\ j \in Indices /\ Holds(subConv[j], j, 1) /\ (subVisit > 1 => subConv[j].ended)
          /\ subRuns[j] = IF subVisit = 1 /\ subConv[j].ended THEN 1 ELSE 0
      BY <1>6, <2>1 DEF FlowsInv
    <3>2. CASE j = i
      <4>1. subVisit >= 1
        BY <1>2, SubVisiting
      <4>2. CASE subConv[i].ended
        BY <3>1, <3>2, <4>2, <1>3, <1>4 DEF Holds
      <4>3. CASE ~subConv[i].ended
        <5>1. subVisit = 1 /\ subRuns[i] = 0
          BY <2>1, <3>1, <3>2, <4>1, <4>3
        <5> QED BY <3>1, <3>2, <4>3, <5>1, <1>3, <1>4 DEF Holds, Many
      <4> QED BY <4>2, <4>3
    <3>3. CASE j # i
      BY <3>1, <3>3, <1>3, <1>4
    <3> QED BY <3>2, <3>3
  <2> QED BY <1>2, <2>1, <2>2 DEF FlowsInv
<1>10. subVisit' # 0 /\ subKind' = subKind
  BY <1>2, SubVisiting
<1> QED BY <1>5, <1>7, <1>8, <1>9, <1>10, SubPartsNext

LEMMA TaskFinishesInv == ASSUME SubInv, NEW i \in Indices, TaskFinishes(i) PROVE SubInv'
<1>1. /\ subKind # "map" /\ i \in subActive /\ RunToEnd(i) /\ subConv' = Ended(i)
      /\ subActive' = subActive \ {i}
      /\ UNCHANGED <<subKind, subPc, subVisit, subItems, subTasks, subHalted, subIndex,
                     subOutputs, subResult>>
  BY DEF TaskFinishes, Parallel, subLoopVars
<1>2. FlagTyped'
  BY <1>1, SubParts, Zenon DEF FlagTyped
<1>3. subPc = "running"
  BY <1>1, SubParts DEF TasksInv, Waiting
<1> QED BY <1>1, <1>2, <1>3, TaskEnds

LEMMA InterruptedInv == ASSUME SubInv, NEW i \in Indices, Interrupted(i) PROVE SubInv'
<1>1. /\ i \in subActive /\ subKind # "parallelMap" /\ ~subConv[Key(i)].ended
      /\ \/ RunToEnd(i) /\ subConv' = Ended(i)
         \/ UNCHANGED <<subRuns, subConv>>
      /\ subActive' = subActive \ {i} /\ subHalted'
      /\ subPc' = IF subKind # "map" THEN "running" ELSE "stopped"
      /\ UNCHANGED <<subKind, subVisit, subItems, subTasks, subIndex, subOutputs, subResult>>
  BY DEF Interrupted, Parallel, subLoopVars
<1>2. FlagTyped'
  BY Zenon DEF Interrupted, FlagTyped
<1>3. subPc # "away"
  BY <1>1, SubParts DEF MapInv, TasksInv, Waiting
<1>4. CASE subKind # "map" /\ RunToEnd(i) /\ subConv' = Ended(i)
  BY <1>1, <1>2, <1>4, TaskEnds
<1>5. CASE UNCHANGED <<subRuns, subConv>>
  <2>1. subActive' \subseteq Indices /\ (subKind = "map" => subActive' = {})
    BY <1>1, <1>3, MapItem, SubParts DEF SubTyped
  <2>2. ASSUME subKind # "map" PROVE TasksInv'
    BY <1>1, <1>3, <2>2, SubParts DEF TasksInv, Waiting
  <2>3. subKind # "flows" => subKind = "map"
    BY <1>1, SubParts DEF SubTyped, SubKinds
  <2>4. SubTyped'
    BY <1>1, <1>5, <2>1, SubParts DEF SubTyped
  <2>5. ASSUME subKind = "map" PROVE MapInv'
    <3>1. MapInv
      BY <2>5, <1>3, SubVisiting
    <3> QED BY <1>1, <1>5, <2>1, <2>5, <3>1 DEF MapInv, Holds
  <2>6. ASSUME subKind = "flows" PROVE FlowsInv'
    <3>1. FlowsInv
      BY <2>6, <1>3, SubVisiting
    <3> QED BY <1>1, <1>5, <2>6, <3>1 DEF FlowsInv, Holds
  <2>7. subVisit' # 0 /\ subKind' = subKind
    BY <1>1, <1>3, SubVisiting
  <2> QED BY <1>1, <1>2, <2>2, <2>4, <2>5, <2>6, <2>7, SubPartsNext
<1>6. CASE subKind = "map" /\ RunToEnd(i) /\ subConv' = Ended(i)
  <2>1. /\ i = subIndex + 1 /\ i \in 1..subItems /\ Key(i) = 1 /\ subActive = {i}
        /\ Holds(subConv[1], i, subVisit) /\ subRuns[i] = 0 /\ ~subConv[1].ended
        /\ subConv[1] # NoSub /\ subIndex < subItems
    BY <1>1, <1>3, <1>6, MapItem
  <2>2. MapInv /\ subVisit \in 1..SubMaxVisits /\ subIndex \in Nat /\ subItems \in Nat
        /\ 1..subItems \subseteq Indices
    BY <1>3, <1>6, SubVisiting
  <2>3. subConv' \in [Indices -> SubConversations] /\ subConv'[1].ended
        /\ Holds(subConv'[1], i, subVisit)
    BY <1>6, <2>1, SubEnds, SubParts, ItemsAreIndices DEF Holds
  <2>4. /\ subRuns' \in [Indices -> 0..Many] /\ subRuns'[i] = 1
        /\ \A j \in Indices : j # i => subRuns'[j] = subRuns[j]
    BY <1>6, <2>1, SubRunsOnce, SubParts DEF Many
  <2>5. SubTyped'
    BY <1>1, <1>6, <2>3, <2>4, SubParts DEF SubTyped
  <2>6. \A j \in 1..subItems : subRuns'[j] = IF j <= i THEN 1 ELSE 0
    <3> SUFFICES ASSUME NEW j \in 1..subItems PROVE subRuns'[j] = IF j <= i THEN 1 ELSE 0
      OBVIOUS
    <3>1. CASE j = i
      BY <3>1, <2>1, <2>2, <2>4
    <3>2. CASE j # i
      <4>1. subRuns[j] = IF j <= subIndex THEN 1 ELSE 0
        BY <3>2, <1>3, <2>1, <2>2 DEF MapInv
      <4> QED BY <3>2, <4>1, <2>1, <2>2, <2>4
    <3> QED BY <3>1, <3>2
  <2>7. subActive' = {} /\ subPc' = "stopped"
    BY <1>1, <1>6, <2>1
  <2>8. MapInv'
    BY <1>1, <1>6, <2>1, <2>2, <2>3, <2>6, <2>7 DEF MapInv
  <2>9. subVisit' # 0 /\ subKind' = "map"
    BY <1>1, <1>6, <2>2
  <2> QED BY <1>2, <2>5, <2>8, <2>9, SubPartsNext
<1> QED BY <1>1, <1>4, <1>5, <1>6

LEMMA LeaveTasksInv == ASSUME SubInv, LeaveTasks PROVE SubInv'
<1>1. /\ subPc = "running" /\ subKind # "map" /\ subTasks = {} /\ subActive = {} /\ ~subHalted
      /\ subResult' = [i \in 1..subItems |-> Output(i)] /\ subPc' = "away"
      /\ UNCHANGED <<subKind, subVisit, subItems, subConv, subTasks, subActive, subHalted,
                     subIndex, subOutputs, subRuns>>
  BY DEF LeaveTasks, TasksEnd, Parallel, subLoopVars, subTaskVars
<1>2. TasksInv /\ subVisit \in 1..SubMaxVisits /\ subItems \in Nat /\ 1..subItems \subseteq Indices
  BY <1>1, SubVisiting
<1>3. \A i \in 1..subItems : subConv[i].ended
  BY <1>1, <1>2 DEF TasksInv, Waiting
<1>4. TasksInv'
  BY <1>1, <1>2 DEF TasksInv, Waiting
<1>5. FlagTyped'
  BY <1>1, SubParts, Zenon DEF FlagTyped
<1>6. PICK v \in 1..SubMaxVisits :
          /\ v = IF subKind = "parallelMap" THEN subVisit ELSE 1
          /\ \A i \in 1..subItems : Holds(subConv[i], i, v)
  <2>1. CASE subKind = "parallelMap"
    <3>1. ParallelMapInv
      BY <1>1, <2>1, SubVisiting
    <3> QED BY <1>2, <2>1, <3>1 DEF ParallelMapInv
  <2>2. CASE subKind # "parallelMap"
    <3>1. FlowsInv /\ 1 \in 1..SubMaxVisits
      BY <1>1, <1>2, <2>2, SubVisiting, SubParts, SubAssumption DEF SubTyped, SubKinds
    <3> QED BY <2>2, <3>1 DEF FlowsInv
  <2> QED BY <2>1, <2>2
<1>7. \A i \in 1..subItems : Output(i) = Computed(i, v) /\ Output(i) \in SubOutput
  <2> SUFFICES ASSUME NEW i \in 1..subItems
               PROVE  Output(i) = Computed(i, v) /\ Output(i) \in SubOutput
    OBVIOUS
  <2>1. i \in Indices
    BY <1>2
  <2>2. Key(i) = i
    BY <1>1, <2>1, SubKeys
  <2> QED BY <1>6, <2>1, <2>2, SubOutputs
<1>8. subResult' = [i \in 1..subItems |-> Computed(i, v)] /\ subResult' \in Seq(SubOutput)
  BY <1>1, <1>2, <1>7
<1>9. SubTyped'
  BY <1>1, <1>8, SubParts DEF SubTyped
<1>10. ASSUME subKind = "parallelMap" PROVE ParallelMapInv'
  <2>1. ParallelMapInv
    BY <1>1, <1>10, SubVisiting
  <2> QED BY <1>1, <1>3, <1>6, <1>8, <1>10, <2>1 DEF ParallelMapInv
<1>11. ASSUME subKind = "flows" PROVE FlowsInv'
  <2>1. FlowsInv
    BY <1>1, <1>11, SubVisiting
  <2> QED BY <1>1, <1>3, <1>6, <1>8, <1>11, <2>1 DEF FlowsInv
<1>12. subVisit' # 0 /\ subKind' = subKind
  BY <1>1, <1>2
<1> QED BY <1>1, <1>4, <1>5, <1>9, <1>10, <1>11, <1>12, SubPartsNext

LEMMA SubStep == SubInv /\ [SubNext]_subVars => SubInv'
<1> SUFFICES ASSUME SubInv, [SubNext]_subVars PROVE SubInv'
  OBVIOUS
<1>1. CASE UNCHANGED subVars
  <2>1. UNCHANGED <<subKind, subPc, subVisit, subItems, subConv, subTasks, subActive,
                    subHalted, subIndex, subOutputs, subResult, subRuns>>
    BY <1>1 DEF subVars, subTaskVars, subLoopVars
  <2> QED
    BY <2>1, Zenon DEF SubInv, SubTypeOK, MapInv, TasksInv, ParallelMapInv, FlowsInv, Waiting
<1>2. CASE SubNext
  BY <1>2, VisitInv, ResumeInv, StartItemInv, LeaveMapInv, HaltInv, LeaveTasksInv,
     StartTaskInv, ItemFinishesInv, TaskFinishesInv, InterruptedInv, StopsInv, Zenon
     DEF SubNext
<1> QED BY <1>1, <1>2

LEMMA MapOutputs == SubInv => MapOutputsAreNew
<1> SUFFICES ASSUME SubInv, subKind # "flows", subPc = "away", subVisit > 0
             PROVE  /\ subResult = [i \in 1..subItems |-> [item |-> i, visit |-> subVisit]]
                    /\ \A i \in 1..subItems : subRuns[i] # 0
  BY DEF MapOutputsAreNew
<1>1. subKind \in {"map", "parallelMap"}
  BY SubParts DEF SubTyped, SubKinds
<1>2. CASE subKind = "map"
  BY <1>2, SubParts DEF MapInv, Computed
<1>3. CASE subKind = "parallelMap"
  BY <1>3, SubParts DEF ParallelMapInv, Computed
<1> QED BY <1>1, <1>2, <1>3

LEMMA DoneOnce == SubInv => NoWorkTwice
<1> SUFFICES ASSUME SubInv, subKind # "parallelMap", NEW i \in 1..subItems
             PROVE  subRuns[i] # Many
  BY DEF NoWorkTwice
<1>1. subKind \in {"map", "flows"}
  BY SubParts DEF SubTyped, SubKinds
<1>2. CASE subKind = "map"
  BY <1>2, SubParts DEF MapInv, Many
<1>3. CASE subKind = "flows"
  <2>1. subVisit > 0
    BY SubParts, SubAssumption DEF SubTyped
  <2> QED BY <1>3, <2>1, SubParts DEF FlowsInv, Many
<1> QED BY <1>1, <1>2, <1>3

\* However often a visit of a map step was interrupted, raised or yielded, and
\* whatever the step was left with by earlier visits, its outputs are those of
\* every item, in order, computed from the inputs of this visit: for any number
\* of items, workers and visits (MapStep._invoke_step_async).
THEOREM MapsAreComplete == SubSpec => []MapOutputsAreNew
BY SubInitial, SubStep, MapOutputs, PTL DEF SubSpec

\* An item of a map and a flow of a parallel step runs to its end at most once in
\* a visit, however often the executions of the visit stop, for any number of
\* them (_invoke_step_async of MapStep and ParallelFlowExecutionStep).
THEOREM ItemsRunOnce == SubSpec => []NoWorkTwice
BY SubInitial, SubStep, DoneOnce, PTL DEF SubSpec

\* The sub-conversations, the tasks, the index and the outputs of the step are
\* always well formed.
THEOREM SubTypeCorrect == SubSpec => []SubTypeOK
<1>1. SubInv => SubTypeOK
  BY DEF SubInv
<1> QED BY <1>1, SubInitial, SubStep, PTL DEF SubSpec

-----------------------------------------------------------------------------
(* Scopes.                                                                 *)

\* How many scopes a task has open, which of them execute a conversation, and
\* the listeners each has switched off.
Depth(t) == Len(scOpen[t])
Runs(t) == {i \in 1..Depth(t) : scOpen[t][i].run}
Silences(t, i) == scOpen[t][i].silenced

\* The listener of the innermost of the first n scopes that has one.
Latest(t, n) ==
    {<<t, j>> : j \in {i \in Runs(t) : i <= n /\ \A k \in Runs(t) : k <= n => k <= i}}

\* The listener around all branches.
Outer == Latest(ScMain, Depth(ScMain))
Owned(t, n) == {<<t, j>> : j \in {i \in Runs(t) : i <= n}}

ScTyped ==
    /\ scOpen \in [ScTasks -> Seq(Scope)]
    /\ scListeners \in [ScTasks -> Seq(Scopes)]
    /\ scActive \subseteq Scopes /\ scUnheard \subseteq Scopes
    /\ scOwed \subseteq Processors \X Scopes
    /\ scRaised \in [ScTasks -> {"none", "new", "recorded"}]
    /\ scRunning \subseteq ScBranches
    /\ \A t \in ScTasks : Depth(t) <= ScMaxDepth

\* A branch that is not running has left everything.
IdleInv ==
    \A b \in ScBranches \ scRunning : scOpen[b] = <<>> /\ scListeners[b] = <<>>

\* The spans t finds on its stack when it starts.
Base(t) == IF t \in scRunning THEN Opened(ScMain) ELSE <<>>

\* Its stack is what it found, what it opened and the message it streams; after a
\* stream that broke there is more.
StackOf(t) ==
    IF t \in scBroken
    THEN Len(scSpans[t]) > Len(Base(t)) + Depth(t) + (IF t \in scStreaming THEN 1 ELSE 0)
    ELSE scSpans[t] = Base(t) \o Opened(t) \o Streamed(t)

SpansInv ==
    /\ scSpans \in [ScTasks -> Seq(Spans)]
    /\ scStreaming \subseteq ScTasks /\ scBroken \subseteq ScTasks
    /\ \A t \in scStreaming : Depth(t) > 0
    /\ scBroken \subseteq {ScMain} \cup scRunning
    /\ \A t \in ScTasks : StackOf(t)

\* A task's registry has the listeners it found, and those of its own scopes in
\* the order of the scopes.
RegistryOf(t, L) ==
    /\ \A k \in 1..Len(L) : \E u \in {ScMain, t} : \E i \in Runs(u) : L[k] = <<u, i>>
    /\ \A k, m \in 1..Len(L) : k < m =>
          (L[m][1] = L[k][1] /\ L[k][2] < L[m][2]) \/ (L[m][1] = t /\ L[k][1] # t)
    /\ \A j \in Runs(t) : \E k \in 1..Len(L) : L[k] = <<t, j>>

RegistryInv ==
    \A t \in {ScMain} \cup scRunning : \E L \in {scListeners[t]} : RegistryOf(t, L)

\* What a scope has switched off, and what listens.
SilencedInv ==
    /\ \A i \in Runs(ScMain) : Silences(ScMain, i) = Latest(ScMain, i - 1)
    /\ \A b \in scRunning : \A i \in Runs(b) :
          /\ Latest(b, i - 1) \subseteq Silences(b, i)
          /\ Silences(b, i) \subseteq Outer \cup Owned(b, i - 1)

ActiveInv ==
    /\ scRunning = {} => scActive = Outer
    /\ scActive \subseteq Outer \cup UNION {Owned(b, Depth(b)) : b \in scRunning}
    /\ \A l \in Outer \ scActive :
          \E b \in scRunning : \E i \in Runs(b) : l \in Silences(b, i)
    /\ \A b \in scRunning : Latest(b, Depth(b)) \subseteq scActive
    /\ \A b \in scRunning : Depth(b) > 0 => 1 \in Runs(b)

ScInv ==
    /\ ScTyped /\ IdleInv /\ SpansInv /\ RegistryInv /\ SilencedInv /\ ActiveInv
    /\ StartsAreEnded

LEMMA Depths ==
    ASSUME ScTyped, NEW t \in ScTasks
    PROVE  /\ Depth(t) \in Nat /\ Depth(t) <= ScMaxDepth /\ ScMaxDepth \in Nat
           /\ Runs(t) \subseteq 1..Depth(t)
           /\ \A i \in 1..Depth(t) : <<t, i>> \in Scopes
           /\ Depth(t) < ScMaxDepth => <<t, Depth(t) + 1>> \in Scopes
           /\ scOpen[t] \in Seq(Scope) /\ DOMAIN scOpen[t] = 1..Depth(t)
<1>1. scOpen[t] \in Seq(Scope)
  BY DEF ScTyped
<1>2. Depth(t) \in Nat /\ Depth(t) <= ScMaxDepth
  BY <1>1 DEF ScTyped, Depth
<1> QED BY <1>1, <1>2, ScAssumption DEF Runs, Scopes, Depth

\* A branch that executes is running; while one is, the main task waits.
LEMMA Executing ==
    ASSUME ScTyped, NEW t \in ScTasks, Executes(t)
    PROVE  \/ t = ScMain /\ scRunning = {}
           \/ t \in scRunning /\ t # ScMain /\ t \in ScBranches
BY ScAssumption DEF Executes, ScTyped

\* The scopes of a task when one is opened.
LEMMA Entered ==
    ASSUME ScTyped, NEW t \in ScTasks, NEW run \in BOOLEAN, NEW sil \in SUBSET Scopes,
           Depth(t) < ScMaxDepth,
           scOpen' = [scOpen EXCEPT ![t] = Append(@, [run |-> run, silenced |-> sil])]
    PROVE  /\ scOpen' \in [ScTasks -> Seq(Scope)]
           /\ Depth(t)' = Depth(t) + 1
           /\ \A u \in ScTasks : Depth(u)' <= ScMaxDepth
           /\ \A u \in ScTasks \ {t} : scOpen'[u] = scOpen[u]
           /\ Runs(t)' = Runs(t) \cup (IF run THEN {Depth(t) + 1} ELSE {})
           /\ \A i \in 1..Depth(t) : Silences(t, i)' = Silences(t, i)
           /\ Silences(t, Depth(t))' = sil
<1> DEFINE new == [run |-> run, silenced |-> sil]
<1>1. new \in Scope
  BY DEF Scope
<1>2. scOpen \in [ScTasks -> Seq(Scope)] /\ scOpen[t] \in Seq(Scope) /\ Depth(t) \in Nat
  BY Depths DEF ScTyped
<1>3. scOpen' = [scOpen EXCEPT ![t] = Append(scOpen[t], new)]
  OBVIOUS
<1>4. new.run = run /\ new.silenced = sil
  OBVIOUS
<1> HIDE DEF new
<1>5. /\ scOpen' \in [ScTasks -> Seq(Scope)]
      /\ scOpen'[t] = Append(scOpen[t], new)
      /\ \A u \in ScTasks \ {t} : scOpen'[u] = scOpen[u]
  BY <1>1, <1>2, <1>3
<1>6. /\ Len(scOpen'[t]) = Depth(t) + 1
      /\ \A i \in 1..Depth(t) : scOpen'[t][i] = scOpen[t][i]
      /\ scOpen'[t][Depth(t) + 1] = new
  BY <1>1, <1>2, <1>5 DEF Depth
<1>7. Depth(t)' = Depth(t) + 1
  BY <1>6 DEF Depth
<1>8. \A u \in ScTasks : Depth(u)' <= ScMaxDepth
  <2> SUFFICES ASSUME NEW u \in ScTasks PROVE Len(scOpen'[u]) <= ScMaxDepth
    BY DEF Depth
  <2>1. CASE u = t
    BY <2>1, <1>2, <1>6, ScAssumption
  <2>2. CASE u # t
    BY <2>2, <1>5 DEF ScTyped, Depth
  <2> QED BY <2>1, <2>2
<1>9. ASSUME run PROVE Runs(t)' = Runs(t) \cup {Depth(t) + 1}
  BY <1>2, <1>4, <1>6, <1>7, <1>9 DEF Runs
<1>10. ASSUME ~run PROVE Runs(t)' = Runs(t)
  BY <1>2, <1>4, <1>6, <1>7, <1>10 DEF Runs
<1>11. \A i \in 1..Depth(t) : Silences(t, i)' = Silences(t, i)
  BY <1>6 DEF Silences
<1>12. Silences(t, Depth(t))' = sil
  BY <1>4, <1>6, <1>7 DEF Silences
<1> QED BY <1>5, <1>7, <1>8, <1>9, <1>10, <1>11, <1>12

\* The scopes of a task when one is left.
LEMMA Exited ==
    ASSUME ScTyped, NEW t \in ScTasks, scOpen[t] # <<>>,
           scOpen' = [scOpen EXCEPT ![t] = Front(@)]
    PROVE  /\ scOpen' \in [ScTasks -> Seq(Scope)]
           /\ Depth(t) \in Nat /\ Depth(t) > 0 /\ Depth(t)' = Depth(t) - 1
           /\ \A u \in ScTasks : Depth(u)' <= ScMaxDepth
           /\ \A u \in ScTasks \ {t} : scOpen'[u] = scOpen[u]
           /\ Runs(t)' = Runs(t) \ {Depth(t)}
           /\ \A i \in 1..Depth(t) - 1 : Silences(t, i)' = Silences(t, i)
           /\ Last(scOpen[t]).run <=> Depth(t) \in Runs(t)
           /\ Last(scOpen[t]).silenced = Silences(t, Depth(t))
<1>1. scOpen \in [ScTasks -> Seq(Scope)] /\ scOpen[t] \in Seq(Scope) /\ Depth(t) \in Nat
      /\ DOMAIN scOpen[t] = 1..Depth(t)
  BY Depths DEF ScTyped
<1>2. Depth(t) > 0
  BY <1>1 DEF Depth
<1>3. /\ Front(scOpen[t]) \in Seq(Scope) /\ Len(Front(scOpen[t])) = Depth(t) - 1
      /\ \A i \in 1..Depth(t) - 1 : Front(scOpen[t])[i] = scOpen[t][i]
      /\ Last(scOpen[t]) = scOpen[t][Depth(t)]
  BY <1>1, <1>2 DEF Front, Last, Depth
<1>4. /\ scOpen' \in [ScTasks -> Seq(Scope)]
      /\ scOpen'[t] = Front(scOpen[t])
      /\ \A u \in ScTasks \ {t} : scOpen'[u] = scOpen[u]
  BY <1>1, <1>3
<1>5. Depth(t)' = Depth(t) - 1 /\ \A i \in 1..Depth(t) - 1 : scOpen'[t][i] = scOpen[t][i]
  BY <1>3, <1>4 DEF Depth
<1>6. \A u \in ScTasks : Depth(u)' <= ScMaxDepth
  <2> SUFFICES ASSUME NEW u \in ScTasks PROVE Len(scOpen'[u]) <= ScMaxDepth
    BY DEF Depth
  <2>1. CASE u = t
    BY <2>1, <1>1, <1>5, ScAssumption DEF ScTyped, Depth
  <2>2. CASE u # t
    BY <2>2, <1>4 DEF ScTyped, Depth
  <2> QED BY <2>1, <2>2
<1>7. Runs(t)' = Runs(t) \ {Depth(t)}
  BY <1>1, <1>2, <1>5 DEF Runs
<1>8. \A i \in 1..Depth(t) - 1 : Silences(t, i)' = Silences(t, i)
  BY <1>5 DEF Silences
<1>9. /\ Last(scOpen[t]).run <=> Depth(t) \in Runs(t)
      /\ Last(scOpen[t]).silenced = Silences(t, Depth(t))
  BY <1>1, <1>2, <1>3 DEF Runs, Silences
<1> QED BY <1>1, <1>2, <1>4, <1>5, <1>6, <1>7, <1>8, <1>9

\* The scopes of other tasks stay as they are.
LEMMA OthersKept ==
    ASSUME NEW u, scOpen'[u] = scOpen[u]
    PROVE  /\ Depth(u)' = Depth(u) /\ Runs(u)' = Runs(u)
           /\ \A i : Silences(u, i)' = Silences(u, i)
           /\ \A n : Latest(u, n)' = Latest(u, n) /\ Owned(u, n)' = Owned(u, n)
           /\ Opened(u)' = Opened(u)
<1>1. Depth(u)' = Depth(u)
  BY DEF Depth
<1>2. Runs(u)' = Runs(u)
  BY <1>1 DEF Runs
<1>3. \A i : Silences(u, i)' = Silences(u, i)
  BY DEF Silences
<1>4. \A n : Latest(u, n)' = Latest(u, n) /\ Owned(u, n)' = Owned(u, n)
  BY <1>2 DEF Latest, Owned
<1>5. Opened(u)' = Opened(u)
  BY DEF Opened
<1> QED BY <1>1, <1>2, <1>3, <1>4, <1>5

\* What is above some depth is of no concern below.
LEMMA Below ==
    ASSUME NEW u, NEW n, {i \in Runs(u)' : i <= n} = {i \in Runs(u) : i <= n}
    PROVE  Latest(u, n)' = Latest(u, n) /\ Owned(u, n)' = Owned(u, n)
<1>1. \A i : i \in Runs(u)' /\ i <= n <=> i \in Runs(u) /\ i <= n
  OBVIOUS
<1> QED BY <1>1 DEF Latest, Owned

-----------------------------------------------------------------------------
(* The registry and the spans.                                             *)

\* The last listener of a registry is that of the innermost scope that has one.
LEMMA LastOwn ==
    ASSUME ScTyped, RegistryInv, NEW t \in {ScMain} \cup scRunning, NEW j \in Runs(t)
    PROVE  /\ scListeners[t] # <<>> /\ scListeners[t] \in Seq(Scopes)
           /\ \E i \in Runs(t) : /\ Last(scListeners[t]) = <<t, i>>
                                /\ \A k \in Runs(t) : k <= i
<1> DEFINE L == scListeners[t]
<1>1. t \in ScTasks /\ L \in Seq(Scopes)
  BY DEF ScTyped, ScTasks
<1>0. Runs(t) \subseteq Nat
  <2>1. Runs(t) \subseteq 1..Depth(t) /\ Depth(t) \in Nat
    BY <1>1, Depths
  <2> QED BY <2>1
<1>2. \A k \in Runs(t) : \E i \in 1..Len(L) : L[i] = <<t, k>>
  BY DEF RegistryInv, RegistryOf
<1>3. Len(L) \in Nat /\ Len(L) > 0 /\ Last(L) = L[Len(L)] /\ Len(L) \in 1..Len(L) /\ L # <<>>
  BY <1>1, <1>2 DEF Last
<1>4. PICK u \in ScTasks, i \in 1..ScMaxDepth : L[Len(L)] = <<u, i>>
  BY <1>1, <1>3 DEF Scopes
<1>5. \A k, m \in 1..Len(L) : k < m =>
         (L[m][1] = L[k][1] /\ L[k][2] < L[m][2]) \/ (L[m][1] = t /\ L[k][1] # t)
  BY DEF RegistryInv, RegistryOf
<1>6. \A k \in Runs(t) : u = t /\ k <= i
  <2> SUFFICES ASSUME NEW k \in Runs(t) PROVE u = t /\ k <= i
    OBVIOUS
  <2>1. PICK m \in 1..Len(L) : L[m] = <<t, k>>
    BY <1>2
  <2>2. CASE m = Len(L)
    BY <2>1, <2>2, <1>1, <1>4, Depths
  <2>3. CASE m < Len(L)
    <3>1. PICK n \in 1..Len(L) : n = Len(L)
      BY <1>3
    <3>2. L[m][1] = t /\ L[m][2] = k /\ L[n][1] = u /\ L[n][2] = i
      BY <2>1, <3>1, <1>4
    <3>3. (L[n][1] = L[m][1] /\ L[m][2] < L[n][2]) \/ (L[n][1] = t /\ L[m][1] # t)
      BY <2>3, <3>1, <1>5
    <3>4. k \in Nat /\ i \in Nat
      BY <1>0
    <3>5. u = t /\ k < i
      BY <3>2, <3>3, Zenon
    <3> QED BY <3>4, <3>5
  <2> QED BY <2>1, <2>2, <2>3, <1>3
<1>7. u = t
  BY <1>6
<1>8. i \in Runs(t)
  <2>1. PICK n \in 1..Len(L) : n = Len(L)
    BY <1>3
  <2>2. PICK v \in {ScMain, t} : \E h \in Runs(v) : L[n] = <<v, h>>
    BY DEF RegistryInv, RegistryOf
  <2>3. PICK h \in Runs(v) : L[n] = <<v, h>>
    BY <2>2
  <2>4. v = t /\ h = i
    BY <1>4, <1>7, <2>1, <2>3
  <2> QED BY <2>4
<1> QED BY <1>1, <1>3, <1>4, <1>6, <1>7, <1>8

LEMMA LastIsLatest ==
    ASSUME ScTyped, RegistryInv, NEW t \in {ScMain} \cup scRunning, Runs(t) # {}
    PROVE  /\ scListeners[t] # <<>> /\ Latest(t, Depth(t)) = {Last(scListeners[t])}
<1>1. PICK i \in Runs(t) : /\ Last(scListeners[t]) = <<t, i>> /\ scListeners[t] # <<>>
                          /\ \A k \in Runs(t) : k <= i
  BY LastOwn
<1>2. t \in ScTasks /\ Runs(t) \subseteq 1..Depth(t) /\ Depth(t) \in Nat
  BY Depths DEF ScTyped, ScTasks
<1>3. Latest(t, Depth(t)) = {<<t, i>>}
  BY <1>1, <1>2 DEF Latest
<1> QED BY <1>1, <1>3

LEMMA NothingRuns ==
    ASSUME ScTyped, RegistryInv
    PROVE  Runs(ScMain) = {} => Outer = {} /\ scListeners[ScMain] = <<>>
<1> SUFFICES ASSUME Runs(ScMain) = {} PROVE Outer = {} /\ scListeners[ScMain] = <<>>
  OBVIOUS
<1>1. scListeners[ScMain] \in Seq(Scopes)
  BY DEF ScTyped, ScTasks
<1>2. \A k \in 1..Len(scListeners[ScMain]) : FALSE
  BY DEF RegistryInv, RegistryOf
<1>3. scListeners[ScMain] = <<>>
  BY <1>1, <1>2
<1> QED BY <1>3 DEF Outer, Latest

\* The innermost listener is one of the registry and active.
LEMMA LatestListens ==
    ASSUME ScTyped, RegistryInv, NEW t \in {ScMain} \cup scRunning
    PROVE  Latest(t, Depth(t)) \subseteq ToSet(scListeners[t])
<1>1. \A j \in Runs(t) : \E k \in 1..Len(scListeners[t]) : scListeners[t][k] = <<t, j>>
  BY DEF RegistryInv, RegistryOf
<1>2. DOMAIN scListeners[t] = 1..Len(scListeners[t])
  BY DEF ScTyped, ScTasks
<1> QED BY <1>1, <1>2 DEF Latest, ToSet

\* Among the scopes of the branches a registry knows those of its own only.
LEMMA KnownListeners ==
    ASSUME ScTyped, RegistryInv, NEW t \in {ScMain} \cup scRunning
    PROVE  \A l \in ToSet(scListeners[t]) : l[1] \in {ScMain, t}
<1>1. DOMAIN scListeners[t] = 1..Len(scListeners[t])
  BY DEF ScTyped, ScTasks
<1> QED BY <1>1 DEF RegistryInv, RegistryOf, ToSet

LEMMA OpenedEntered ==
    ASSUME NEW t, Depth(t) \in Nat, Depth(t)' = Depth(t) + 1
    PROVE  Opened(t)' = Append(Opened(t), <<t, Depth(t) + 1>>)
<1>1. PICK d \in Nat : d = Depth(t)
  OBVIOUS
<1>2. Opened(t) = [i \in 1..d |-> <<t, i>>] /\ Opened(t)' = [i \in 1..d + 1 |-> <<t, i>>]
  BY <1>1 DEF Opened, Depth
<1> QED BY <1>1, <1>2

LEMMA OpenedExited ==
    ASSUME NEW t, Depth(t) \in Nat, Depth(t) > 0, Depth(t)' = Depth(t) - 1
    PROVE  Opened(t) = Append(Opened(t)', <<t, Depth(t)>>)
<1>1. PICK d \in Nat : d = Depth(t) /\ d > 0
  OBVIOUS
<1>2. Opened(t) = [i \in 1..d |-> <<t, i>>] /\ Opened(t)' = [i \in 1..d - 1 |-> <<t, i>>]
  BY <1>1 DEF Opened, Depth
<1> QED BY <1>1, <1>2

LEMMA FrontOfAppend ==
    ASSUME NEW S, NEW s \in Seq(S), NEW e \in S
    PROVE  Front(Append(s, e)) = s
BY DEF Front

-----------------------------------------------------------------------------
(* Opening a scope.                                                        *)

\* Where a running branch is, the outermost scope of the main task is fixed.
LEMMA OuterKept ==
    ASSUME scOpen'[ScMain] = scOpen[ScMain]
    PROVE  Outer' = Outer /\ Runs(ScMain)' = Runs(ScMain) /\ Opened(ScMain)' = Opened(ScMain)
           /\ Depth(ScMain)' = Depth(ScMain)
<1>1. Depth(ScMain)' = Depth(ScMain)
  BY DEF Depth
<1>2. Runs(ScMain)' = Runs(ScMain)
  BY <1>1 DEF Runs
<1> QED BY <1>1, <1>2 DEF Outer, Latest, Opened

\* What is common to opening and leaving a scope: the tasks at rest.
LEMMA IdleStep ==
    ASSUME ScInv, NEW t \in ScTasks, Executes(t), UNCHANGED scRunning,
           \A u \in ScTasks \ {t} : scOpen'[u] = scOpen[u],
           \A u \in ScTasks \ {t} : scListeners'[u] = scListeners[u]
    PROVE  IdleInv'
<1>1. ScTyped /\ IdleInv
  BY DEF ScInv
<1>2. (t = ScMain /\ scRunning = {}) \/ (t \in scRunning /\ t # ScMain /\ t \in ScBranches)
  BY <1>1, Executing
<1> QED BY <1>1, <1>2, ScAssumption DEF IdleInv, ScTasks

\* The scope t enters or leaves, in terms of what the invariants speak of.
LEMMA RegistryStep ==
    ASSUME ScInv, NEW t \in ScTasks, Executes(t), UNCHANGED scRunning,
           \A u \in ScTasks \ {t} : scOpen'[u] = scOpen[u],
           \A u \in ScTasks \ {t} : scListeners'[u] = scListeners[u],
           NEW L, L = scListeners'[t], RegistryOf(t, L)'
    PROVE  RegistryInv'
<1>1. ScTyped /\ RegistryInv
  BY DEF ScInv
<1>2. (t = ScMain /\ scRunning = {}) \/ (t \in scRunning /\ t # ScMain /\ t \in ScBranches)
  BY <1>1, Executing
<1>3. ASSUME NEW u \in {ScMain} \cup scRunning
      PROVE  \E M \in {scListeners'[u]} : RegistryOf(u, M)'
  <2>1. CASE u = t
    BY <2>1
  <2>2. CASE u # t
    <3>1. u \in ScTasks /\ ScMain \in ScTasks
      BY <1>1 DEF ScTyped, ScTasks
    <3>2. PICK M : M = scListeners[u] /\ RegistryOf(u, M)
      BY <1>1 DEF RegistryInv
    <3>3. M = scListeners'[u] /\ Runs(u)' = Runs(u)
      BY <2>2, <3>1, <3>2, OthersKept
    <3>4. Runs(ScMain)' = Runs(ScMain)
      BY <2>2, <3>1, <1>2, OthersKept
    <3>5. \A v \in {ScMain, u} : Runs(v)' = Runs(v)
      BY <3>3, <3>4
    <3>6. RegistryOf(u, M)'
      BY <3>2, <3>3, <3>5 DEF RegistryOf
    <3> QED BY <3>3, <3>6
  <2> QED BY <2>1, <2>2
<1> QED BY <1>3 DEF RegistryInv

\* What opening a scope does to the terms of the invariant.
EnterEffect(t, run, d, sil) ==
    /\ d \in Nat /\ d = Depth(t) /\ d < ScMaxDepth /\ <<t, d + 1>> \in Scopes
    /\ sil = Silenced(t, run) /\ Executes(t)
    /\ scRunning' = scRunning /\ scOpen' \in [ScTasks -> Seq(Scope)]
    /\ Depth(t)' = d + 1 /\ \A u \in ScTasks : Depth(u)' <= ScMaxDepth
    /\ \A u \in ScTasks \ {t} : scOpen'[u] = scOpen[u]
    /\ Runs(t) \subseteq 1..d
    /\ Runs(t)' = Runs(t) \cup (IF run THEN {d + 1} ELSE {})
    /\ \A i \in 1..d : Silences(t, i)' = Silences(t, i)
    /\ Silences(t, d + 1)' = sil
    /\ scActive' = (IF run THEN (scActive \ sil) \cup {<<t, d + 1>>} ELSE scActive)
    /\ t \in ScBranches /\ d = 0 => run

LEMMA EnterFacts ==
    ASSUME ScInv, NEW t \in ScTasks, NEW run \in BOOLEAN, ScEnter(t, run)
    PROVE  \E d, sil : EnterEffect(t, run, d, sil)
<1> SUFFICES ASSUME NEW d, d = Depth(t), NEW sil, sil = Silenced(t, run)
             PROVE  EnterEffect(t, run, d, sil)
  OBVIOUS
<1>1. ScTyped /\ Executes(t) /\ MayOpen(t, run)
  BY DEF ScInv, ScEnter, MayOpen
<1>2. sil \in SUBSET Scopes
  BY <1>1 DEF Silenced, ScTyped
<1>3. d \in Nat /\ d < ScMaxDepth /\ Runs(t) \subseteq 1..d /\ <<t, d + 1>> \in Scopes
  BY <1>1, Depths DEF MayOpen, Depth
<1>4. scOpen' = [scOpen EXCEPT ![t] = Append(@, [run |-> run, silenced |-> sil])]
  BY DEF ScEnter
<1>5. /\ scOpen' \in [ScTasks -> Seq(Scope)]
      /\ Depth(t)' = Depth(t) + 1
      /\ \A u \in ScTasks : Depth(u)' <= ScMaxDepth
      /\ \A u \in ScTasks \ {t} : scOpen'[u] = scOpen[u]
      /\ Runs(t)' = Runs(t) \cup (IF run THEN {Depth(t) + 1} ELSE {})
      /\ \A i \in 1..Depth(t) : Silences(t, i)' = Silences(t, i)
      /\ Silences(t, Depth(t))' = sil
  <2>1. Depth(t) < ScMaxDepth
    BY <1>3
  <2> HIDE DEF Depth, Runs, Silences
  <2> QED BY <1>1, <1>2, <1>4, <2>1, Entered
<1>6. Silences(t, d + 1)' = sil
  BY <1>5 DEF Silences
<1>7. scActive' = (IF run THEN (scActive \ sil) \cup {<<t, d + 1>>} ELSE scActive)
      /\ scRunning' = scRunning
  BY DEF ScEnter, Depth
<1>8. t \in ScBranches /\ d = 0 => run
  <2>1. scOpen[t] \in Seq(Scope)
    BY <1>1, Depths
  <2>2. d = 0 => scOpen[t] = <<>>
    <3>1. PICK q : q = scOpen[t]
      OBVIOUS
    <3>2. q \in Seq(Scope) /\ Len(q) = d
      BY <3>1, <2>1 DEF Depth
    <3> QED BY <3>1, <3>2, EmptySeq
  <2> QED BY <2>2, <1>1, Zenon DEF MayOpen
<1> QED BY <1>1, <1>3, <1>5, <1>6, <1>7, <1>8 DEF EnterEffect

LEMMA EnterLatest ==
    ASSUME NEW t, NEW run \in BOOLEAN, NEW d \in Nat, Runs(t) \subseteq 1..d,
           Runs(t)' = Runs(t) \cup (IF run THEN {d + 1} ELSE {})
    PROVE  /\ \A n \in 0..d : Latest(t, n)' = Latest(t, n) /\ Owned(t, n)' = Owned(t, n)
           /\ run => Latest(t, d + 1)' = {<<t, d + 1>>}
           /\ ~run => Latest(t, d + 1)' = Latest(t, d)
           /\ Owned(t, d + 1)' = Owned(t, d) \cup (IF run THEN {<<t, d + 1>>} ELSE {})
<1>2. ASSUME NEW n \in 0..d PROVE Latest(t, n)' = Latest(t, n) /\ Owned(t, n)' = Owned(t, n)
  <2>1. {i \in Runs(t)' : i <= n} = {i \in Runs(t) : i <= n}
    OBVIOUS
  <2> QED BY <2>1, Below
<1>3. ASSUME run PROVE Latest(t, d + 1)' = {<<t, d + 1>>}
  BY <1>3 DEF Latest
<1>4. ASSUME ~run PROVE Latest(t, d + 1)' = Latest(t, d)
  BY <1>4 DEF Latest
<1>5. Owned(t, d + 1)' = Owned(t, d) \cup (IF run THEN {<<t, d + 1>>} ELSE {})
  BY DEF Owned
<1> QED BY <1>2, <1>3, <1>4, <1>5

\* Types and registry when a scope is opened.
LEMMA EnterRegistry ==
    ASSUME ScInv, NEW t \in ScTasks, NEW run \in BOOLEAN, ScEnter(t, run)
    PROVE  ScTyped' /\ IdleInv' /\ RegistryInv'
<1>1. ScTyped /\ RegistryInv
  BY DEF ScInv
<1>2. PICK d, sil : EnterEffect(t, run, d, sil)
  BY EnterFacts
<1> DEFINE s == <<t, d + 1>>
<1>3. /\ d \in Nat /\ d = Depth(t) /\ d < ScMaxDepth /\ scRunning' = scRunning /\ s \in Scopes
      /\ scOpen' \in [ScTasks -> Seq(Scope)] /\ Depth(t)' = d + 1
      /\ \A u \in ScTasks : Depth(u)' <= ScMaxDepth
      /\ \A u \in ScTasks \ {t} : scOpen'[u] = scOpen[u]
      /\ Runs(t)' = Runs(t) \cup (IF run THEN {d + 1} ELSE {})
      /\ Runs(t) \subseteq 1..d
      /\ scActive' = (IF run THEN (scActive \ sil) \cup {s} ELSE scActive)
      /\ Executes(t)
  BY <1>2 DEF EnterEffect
<1>4. scListeners \in [ScTasks -> Seq(Scopes)]
  BY <1>1 DEF ScTyped
<1>5. /\ scListeners' = (IF run THEN [scListeners EXCEPT ![t] = Append(@, s)] ELSE scListeners)
      /\ scOwed' = scOwed \cup Announced(ScProcessors, s)
      /\ scRaised' = scRaised /\ scUnheard' = scUnheard
  BY <1>3 DEF ScEnter, Depth
<1> HIDE DEF s
<1>7. /\ scListeners' \in [ScTasks -> Seq(Scopes)]
      /\ run => scListeners'[t] = Append(scListeners[t], s)
      /\ ~run => scListeners'[t] = scListeners[t]
      /\ \A u \in ScTasks \ {t} : scListeners'[u] = scListeners[u]
  BY <1>3, <1>4, <1>5
<1>8. ScTyped'
  <2>1. scActive' \subseteq Scopes
    BY <1>1, <1>3 DEF ScTyped
  <2>2. scOwed' \subseteq Processors \X Scopes
    BY <1>1, <1>3, <1>5 DEF ScTyped, Announced, Processors
  <2> QED BY <2>1, <2>2, <1>1, <1>3, <1>5, <1>7 DEF ScTyped
<1>11. IdleInv'
  BY <1>3, <1>7, IdleStep
<1>12. RegistryInv'
  <2>2. PICK M : M = scListeners'[t]
    OBVIOUS
  <2>3. t \in {ScMain} \cup scRunning
    BY <1>1, <1>3, Executing
  <2>1. PICK L : L = scListeners[t] /\ RegistryOf(t, L)
    BY <2>3, <1>1 DEF RegistryInv
  <2>4. /\ \A k \in 1..Len(L) : \E u \in {ScMain, t} : \E i \in Runs(u) : L[k] = <<u, i>>
        /\ \A k, m \in 1..Len(L) : k < m =>
              (L[m][1] = L[k][1] /\ L[k][2] < L[m][2]) \/ (L[m][1] = t /\ L[k][1] # t)
        /\ \A j \in Runs(t) : \E k \in 1..Len(L) : L[k] = <<t, j>>
    BY <2>1 DEF RegistryOf
  <2>5. L \in Seq(Scopes) /\ Len(L) \in Nat
    BY <2>1, <1>4
  <2>6. Runs(ScMain) \subseteq Runs(ScMain)'
    <3>1. CASE t = ScMain
      BY <3>1, <1>3
    <3>2. CASE t # ScMain
      BY <3>2, <1>3, OthersKept DEF ScTasks
    <3> QED BY <3>1, <3>2
  <2>7. ASSUME ~run PROVE RegistryOf(t, M)'
    <3>1. M = L /\ Runs(t)' = Runs(t)
      BY <2>7, <2>1, <2>2, <1>3, <1>7
    <3>2. \A k \in 1..Len(M) : \E u \in {ScMain, t} : \E i \in Runs(u)' : M[k] = <<u, i>>
      BY <3>1, <2>4, <2>6
    <3>3. /\ \A k, m \in 1..Len(M) : k < m =>
              (M[m][1] = M[k][1] /\ M[k][2] < M[m][2]) \/ (M[m][1] = t /\ M[k][1] # t)
          /\ \A j \in Runs(t)' : \E k \in 1..Len(M) : M[k] = <<t, j>>
      BY <3>1, <2>4
    <3> QED BY <3>2, <3>3 DEF RegistryOf
  <2>8. ASSUME run PROVE RegistryOf(t, M)'
    <3>0. M = Append(L, s)
      BY <2>8, <2>1, <2>2, <1>7
    <3>1. /\ M \in Seq(Scopes) /\ Len(M) = Len(L) + 1 /\ M[Len(L) + 1] = s
          /\ \A k \in 1..Len(L) : M[k] = L[k]
      BY <3>0, <2>5, <1>3
    <3>2. s = <<t, d + 1>> /\ s[1] = t /\ s[2] = d + 1 /\ d + 1 \in Runs(t)'
      BY <2>8, <1>3 DEF s
    <3>3. ASSUME NEW k \in 1..Len(M)
          PROVE  \E u \in {ScMain, t} : \E i \in Runs(u)' : M[k] = <<u, i>>
      <4>1. CASE k = Len(L) + 1
        BY <4>1, <3>1, <3>2
      <4>2. CASE k \in 1..Len(L)
        <5>1. PICK u \in {ScMain, t} : \E i \in Runs(u) : L[k] = <<u, i>>
          BY <4>2, <2>4
        <5>2. PICK i \in Runs(u) : L[k] = <<u, i>>
          BY <5>1
        <5>3. i \in Runs(u)'
          BY <2>6, <1>3
        <5> QED BY <5>2, <5>3, <4>2, <3>1
      <4> QED BY <4>1, <4>2, <3>1, <2>5
    <3>4. ASSUME NEW k \in 1..Len(M), NEW m \in 1..Len(M), k < m
          PROVE  (M[m][1] = M[k][1] /\ M[k][2] < M[m][2]) \/ (M[m][1] = t /\ M[k][1] # t)
      <4>1. k \in 1..Len(L)
        BY <3>4, <3>1, <2>5
      <4>2. CASE m \in 1..Len(L)
        BY <4>1, <4>2, <3>4, <3>1, <2>4
      <4>3. CASE m = Len(L) + 1
        <5>1. PICK u \in {ScMain, t} : \E i \in Runs(u) : L[k] = <<u, i>>
          BY <4>1, <2>4
        <5>2. PICK i \in Runs(u) : L[k] = <<u, i>>
          BY <5>1
        <5>3. M[k][1] = u /\ M[k][2] = i /\ M[m] = s
          BY <5>2, <4>1, <4>3, <3>1
        <5>4. u = t => i <= d
          BY <1>3
        <5> QED BY <5>3, <5>4, <3>2, <1>3
      <4> QED BY <4>2, <4>3, <3>1, <2>5
    <3>5. \A j \in Runs(t)' : \E k \in 1..Len(M) : M[k] = <<t, j>>
      <4>1. ASSUME NEW j \in Runs(t) PROVE \E k \in 1..Len(M) : M[k] = <<t, j>>
        BY <3>1, <2>4, <2>5
      <4>2. \E k \in 1..Len(M) : M[k] = <<t, d + 1>>
        BY <3>1, <3>2, <2>5
      <4> QED BY <4>1, <4>2, <2>8, <1>3
    <3> QED BY <3>3, <3>4, <3>5 DEF RegistryOf
  <2>9. /\ Executes(t) /\ UNCHANGED scRunning
        /\ \A u \in ScTasks \ {t} : scOpen'[u] = scOpen[u]
        /\ \A u \in ScTasks \ {t} : scListeners'[u] = scListeners[u]
    BY <1>3, <1>7
  <2>10. RegistryOf(t, M)'
    BY <2>7, <2>8
  <2> QED BY <2>2, <2>9, <2>10, RegistryStep
<1> QED BY <1>8, <1>11, <1>12

\* What listens when the main task opens a scope: no branch is running.
LEMMA EnterMain ==
    ASSUME ScInv, NEW run \in BOOLEAN, ScEnter(ScMain, run)
    PROVE  SilencedInv' /\ ActiveInv'
<1>1. ScTyped /\ RegistryInv /\ SilencedInv /\ ActiveInv /\ ScMain \in ScTasks
  BY DEF ScInv, ScTasks
<1>2. PICK d, sil : EnterEffect(ScMain, run, d, sil)
  BY <1>1, EnterFacts
<1>4. /\ d \in Nat /\ d = Depth(ScMain) /\ sil = Silenced(ScMain, run)
      /\ scRunning' = scRunning /\ Depth(ScMain)' = d + 1
      /\ Runs(ScMain)' = Runs(ScMain) \cup (IF run THEN {d + 1} ELSE {})
      /\ Runs(ScMain) \subseteq 1..d
      /\ \A i \in 1..d : Silences(ScMain, i)' = Silences(ScMain, i)
      /\ Silences(ScMain, d + 1)' = sil
      /\ scActive' = (IF run THEN (scActive \ sil) \cup {<<ScMain, d + 1>>} ELSE scActive)
      /\ Executes(ScMain)
  BY <1>2 DEF EnterEffect
<1>5. /\ \A n \in 0..d : Latest(ScMain, n)' = Latest(ScMain, n)
      /\ run => Latest(ScMain, d + 1)' = {<<ScMain, d + 1>>}
      /\ ~run => Latest(ScMain, d + 1)' = Latest(ScMain, d)
  BY <1>4, EnterLatest
<1>6. scRunning = {} /\ scActive = Outer /\ Outer = Latest(ScMain, d)
      /\ Outer' = Latest(ScMain, d + 1)'
  BY <1>1, <1>4 DEF Executes, ActiveInv, Outer
<1>7. run => sil = Outer
  <2>1. Outer \subseteq ToSet(scListeners[ScMain])
    BY <1>1, LatestListens DEF Outer
  <2> QED BY <2>1, <1>4, <1>6 DEF Silenced
<1>8. scActive' = Outer'
  <2>1. CASE run
    BY <2>1, <1>4, <1>5, <1>6, <1>7
  <2>2. CASE ~run
    BY <2>2, <1>4, <1>5, <1>6
  <2> QED BY <2>1, <2>2
<1>9. ActiveInv'
  BY <1>4, <1>6, <1>8 DEF ActiveInv
<1>10. ASSUME NEW i \in Runs(ScMain)'
       PROVE  Silences(ScMain, i)' = Latest(ScMain, i - 1)'
  <2>1. CASE i \in Runs(ScMain)
    BY <2>1, <1>1, <1>4, <1>5 DEF SilencedInv
  <2>2. CASE run /\ i = d + 1
    <3>1. i - 1 = d /\ d \in 0..d
      BY <2>2, <1>4
    <3>2. Silences(ScMain, i)' = sil /\ Latest(ScMain, i - 1)' = Latest(ScMain, d)'
      BY <2>2, <3>1, <1>4
    <3>3. Latest(ScMain, d)' = Latest(ScMain, d)
      BY <3>1, <1>5
    <3> QED BY <2>2, <3>2, <3>3, <1>6, <1>7
  <2> QED BY <2>1, <2>2, <1>4
<1>11. SilencedInv'
  BY <1>4, <1>6, <1>10 DEF SilencedInv
<1> QED BY <1>9, <1>11

\* The same for a branch: it only silences listeners of its own and the one
\* around all branches.
LEMMA EnterBranch ==
    ASSUME ScInv, NEW t \in scRunning, t # ScMain, NEW run \in BOOLEAN, ScEnter(t, run)
    PROVE  SilencedInv' /\ ActiveInv'
<1>1. ScTyped /\ RegistryInv /\ SilencedInv /\ ActiveInv /\ ScMain \in ScTasks
      /\ t \in ScBranches /\ t \in ScTasks
  BY DEF ScInv, ScTasks, ScTyped
<1>2. PICK d, sil : EnterEffect(t, run, d, sil)
  BY <1>1, EnterFacts
<1>4. /\ d \in Nat /\ d = Depth(t) /\ sil = Silenced(t, run) /\ scRunning' = scRunning /\ Depth(t)' = d + 1
      /\ Runs(t)' = Runs(t) \cup (IF run THEN {d + 1} ELSE {})
      /\ Runs(t) \subseteq 1..d
      /\ \A i \in 1..d : Silences(t, i)' = Silences(t, i)
      /\ Silences(t, d + 1)' = sil
      /\ scActive' = (IF run THEN (scActive \ sil) \cup {<<t, d + 1>>} ELSE scActive)
      /\ \A u \in ScTasks \ {t} : scOpen'[u] = scOpen[u]
  BY <1>2 DEF EnterEffect
<1>3. d = 0 => run
  BY <1>1, <1>2, Zenon DEF EnterEffect
<1>5. /\ \A n \in 0..d : Latest(t, n)' = Latest(t, n) /\ Owned(t, n)' = Owned(t, n)
      /\ run => Latest(t, d + 1)' = {<<t, d + 1>>}
      /\ ~run => Latest(t, d + 1)' = Latest(t, d)
      /\ Owned(t, d + 1)' = Owned(t, d) \cup (IF run THEN {<<t, d + 1>>} ELSE {})
  BY <1>4, EnterLatest
<1>6. Outer' = Outer /\ Runs(ScMain)' = Runs(ScMain)
  BY <1>1, <1>4, OuterKept
<1>7. ASSUME NEW u \in ScTasks \ {t}
      PROVE  /\ Depth(u)' = Depth(u) /\ Runs(u)' = Runs(u)
             /\ \A i : Silences(u, i)' = Silences(u, i)
             /\ \A n : Latest(u, n)' = Latest(u, n) /\ Owned(u, n)' = Owned(u, n)
  BY <1>4, OthersKept
<1>8. run => Latest(t, d) \subseteq sil
  BY <1>1, <1>4, LatestListens DEF Silenced, ActiveInv
<1>9. \A l \in sil : l \in scActive /\ l[1] \in {ScMain, t}
  BY <1>1, <1>4, KnownListeners DEF Silenced
<1>10. run => sil \subseteq Outer \cup Owned(t, d)
  <2> SUFFICES ASSUME NEW l \in sil PROVE l \in Outer \cup Owned(t, d)
    OBVIOUS
  <2>1. l \in Outer \/ \E b \in scRunning : l \in Owned(b, Depth(b))
    BY <1>1, <1>9 DEF ActiveInv
  <2>2. ASSUME NEW b \in scRunning, l \in Owned(b, Depth(b)) PROVE l \in Owned(t, d)
    <3>1. l[1] = b /\ b # ScMain
      BY <2>2, <1>1, ScAssumption DEF Owned, ScTyped
    <3> QED BY <3>1, <2>2, <1>4, <1>9
  <2> QED BY <2>1, <2>2
<1>11. ASSUME NEW b \in scRunning, NEW i \in Runs(b)'
       PROVE  /\ Latest(b, i - 1)' \subseteq Silences(b, i)'
              /\ Silences(b, i)' \subseteq Outer' \cup Owned(b, i - 1)'
  <2>1. CASE b # t
    <3>1. b \in ScTasks \ {t}
      BY <2>1, <1>1 DEF ScTyped, ScTasks
    <3>2. i \in Runs(b)
      BY <3>1, <1>7
    <3>3. /\ Silences(b, i)' = Silences(b, i)
          /\ Latest(b, i - 1)' = Latest(b, i - 1) /\ Owned(b, i - 1)' = Owned(b, i - 1)
      BY <3>1, <1>7
    <3> QED BY <3>2, <3>3, <1>1, <1>6 DEF SilencedInv
  <2>2. CASE b = t /\ i \in Runs(t)
    <3>1. i \in 1..d /\ i - 1 \in 0..d
      BY <2>2, <1>4
    <3>2. /\ Silences(t, i)' = Silences(t, i)
          /\ Latest(t, i - 1)' = Latest(t, i - 1) /\ Owned(t, i - 1)' = Owned(t, i - 1)
      BY <3>1, <1>4, <1>5
    <3> QED BY <2>2, <3>2, <1>1, <1>6 DEF SilencedInv
  <2>3. CASE b = t /\ run /\ i = d + 1
    <3>1. i - 1 = d /\ d \in 0..d
      BY <2>3, <1>4
    <3>2. /\ Silences(t, i)' = sil
          /\ Latest(t, d)' = Latest(t, d) /\ Owned(t, d)' = Owned(t, d)
      BY <3>1, <2>3, <1>4, <1>5
    <3> QED BY <2>3, <3>1, <3>2, <1>6, <1>8, <1>10
  <2> QED BY <2>1, <2>2, <2>3, <1>4
<1>12. SilencedInv'
  <2>1. ASSUME NEW i \in Runs(ScMain)'
        PROVE  Silences(ScMain, i)' = Latest(ScMain, i - 1)'
    <3>1. ScMain \in ScTasks \ {t}
      BY <1>1
    <3> QED BY <3>1, <1>1, <1>6, <1>7 DEF SilencedInv
  <2> QED BY <2>1, <1>4, <1>11 DEF SilencedInv
<1>13. scRunning' # {} /\ scRunning' = scRunning
  BY <1>4
<1>14. ASSUME NEW l \in scActive'
       PROVE  l \in Outer' \/ \E b \in scRunning : l \in Owned(b, Depth(b))'
  <2>1. CASE l = <<t, d + 1>> /\ run
    BY <2>1, <1>4, <1>5
  <2>2. CASE l \in Outer
    BY <2>2, <1>6
  <2>3. CASE \E b \in scRunning : l \in Owned(b, Depth(b))
    <3>1. PICK b \in scRunning : l \in Owned(b, Depth(b))
      BY <2>3
    <3>2. CASE b = t
      <4>1. l \in Owned(t, d + 1)'
        BY <3>1, <3>2, <1>4, <1>5
      <4> QED BY <4>1, <1>4
    <3>3. CASE b # t
      <4>1. b \in ScTasks \ {t}
        BY <3>3, <1>1 DEF ScTyped, ScTasks
      <4>2. Owned(b, Depth(b))' = Owned(b, Depth(b))
        BY <4>1, <1>7 DEF Owned
      <4> QED BY <3>1, <4>2
    <3> QED BY <3>2, <3>3
  <2> QED BY <2>1, <2>2, <2>3, <1>1, <1>4 DEF ActiveInv
<1>15. ASSUME NEW l \in Outer', l \notin scActive'
       PROVE  \E b \in scRunning : \E i \in Runs(b)' : l \in Silences(b, i)'
  <2>1. CASE l \in sil /\ run
    <3>1. d + 1 \in Runs(t)'
      BY <2>1, <1>4
    <3> QED BY <2>1, <3>1, <1>4
  <2>2. CASE l \notin scActive
    <3>1. PICK b \in scRunning : \E i \in Runs(b) : l \in Silences(b, i)
      BY <2>2, <1>1, <1>6 DEF ActiveInv
    <3>2. PICK i \in Runs(b) : l \in Silences(b, i)
      BY <3>1
    <3>3. i \in Runs(b)' /\ Silences(b, i)' = Silences(b, i)
      <4>1. CASE b = t
        BY <4>1, <1>4
      <4>2. CASE b # t
        <5>1. b \in ScTasks \ {t}
          BY <4>2, <1>1 DEF ScTyped, ScTasks
        <5> QED BY <5>1, <1>7
      <4> QED BY <4>1, <4>2
    <3> QED BY <3>2, <3>3
  <2> QED BY <2>1, <2>2, <1>4, <1>15
<1>16. ASSUME NEW b \in scRunning PROVE Latest(b, Depth(b))' \subseteq scActive'
  <2>1. CASE b = t
    <3>1. Latest(t, Depth(t))' = Latest(t, d + 1)'
      BY <1>4 DEF Latest
    <3>2. Latest(t, d) \subseteq scActive
      BY <1>1, <1>4 DEF ActiveInv
    <3> QED BY <2>1, <3>1, <3>2, <1>4, <1>5
  <2>2. CASE b # t
    <3>1. b \in ScTasks \ {t} /\ b # ScMain
      BY <2>2, <1>1, ScAssumption DEF ScTyped, ScTasks
    <3>2. Latest(b, Depth(b))' = Latest(b, Depth(b))
      BY <3>1, <1>7 DEF Latest
    <3>3. Latest(b, Depth(b)) \subseteq scActive
      BY <1>1 DEF ActiveInv
    <3>4. \A l \in Latest(b, Depth(b)) : l[1] = b
      BY DEF Latest
    <3> QED BY <2>2, <3>1, <3>2, <3>3, <3>4, <1>4, <1>9
  <2> QED BY <2>1, <2>2
<1>17. ASSUME NEW b \in scRunning, Depth(b)' > 0 PROVE 1 \in Runs(b)'
  <2>1. CASE b = t
    <3>1. d > 0 => 1 \in Runs(t)
      BY <1>1, <1>4 DEF ActiveInv
    <3> QED BY <2>1, <3>1, <1>3, <1>4
  <2>2. CASE b # t
    <3>1. b \in ScTasks \ {t}
      BY <2>2, <1>1 DEF ScTyped, ScTasks
    <3> QED BY <3>1, <1>1, <1>7, <1>17 DEF ActiveInv
  <2> QED BY <2>1, <2>2
<1>18. ActiveInv'
  <2>1. scActive' \subseteq Outer' \cup UNION {Owned(b, Depth(b))' : b \in scRunning'}
    BY <1>13, <1>14
  <2>2. \A l \in Outer' \ scActive' :
           \E b \in scRunning' : \E i \in Runs(b)' : l \in Silences(b, i)'
    BY <1>13, <1>15
  <2>3. \A b \in scRunning' : /\ Latest(b, Depth(b))' \subseteq scActive'
                              /\ Depth(b)' > 0 => 1 \in Runs(b)'
    BY <1>13, <1>16, <1>17
  <2> QED BY <2>1, <2>2, <2>3, <1>13 DEF ActiveInv
<1> QED BY <1>12, <1>18

-----------------------------------------------------------------------------
(* Leaving a scope.                                                        *)

\* A scope is left, or a generation is abandoned.
Leaves(t, heard) ==
    /\ Executes(t) /\ scOpen[t] # <<>> /\ scRunning' = scRunning
    /\ scOpen' = [scOpen EXCEPT ![t] = Front(@)]
    /\ scActive' = Restored(t)
    /\ scListeners' = (IF Last(scOpen[t]).run
                       THEN [scListeners EXCEPT ![t] = Front(@)] ELSE scListeners)
    /\ scOwed' = (IF heard THEN scOwed \ Announced(ScProcessors, <<t, Len(scOpen[t])>>)
                  ELSE scOwed)
    /\ scUnheard' = (IF heard THEN scUnheard ELSE scUnheard \cup {<<t, Len(scOpen[t])>>})
    /\ \E e \in {"none", "new", "recorded"} : scRaised' = [scRaised EXCEPT ![t] = e]

LEMMA ExitLeaves ==
    ASSUME NEW t, NEW heard \in BOOLEAN, ScExit(t, heard)
    PROVE  Leaves(t, heard)
BY DEF ScExit, Leaves

LEMMA AbandonLeaves ==
    ASSUME NEW t, ScAbandon(t)
    PROVE  Leaves(t, FALSE)
BY DEF ScAbandon, Leaves, Restored

\* What leaving a scope does to the terms of the invariant.
LEMMA ExitFacts ==
    ASSUME ScInv, NEW t \in ScTasks, NEW heard \in BOOLEAN, Leaves(t, heard)
    PROVE  /\ Depth(t) \in Nat /\ Depth(t) > 0 /\ scRunning' = scRunning /\ Executes(t)
           /\ scOpen' \in [ScTasks -> Seq(Scope)] /\ Depth(t)' = Depth(t) - 1
           /\ \A u \in ScTasks : Depth(u)' <= ScMaxDepth
           /\ \A u \in ScTasks \ {t} : scOpen'[u] = scOpen[u]
           /\ Runs(t)' = Runs(t) \ {Depth(t)} /\ Runs(t) \subseteq 1..Depth(t)
           /\ \A i \in 1..Depth(t) - 1 : Silences(t, i)' = Silences(t, i)
           /\ Last(scOpen[t]).run <=> Depth(t) \in Runs(t)
           /\ Depth(t) \in Runs(t) =>
                 /\ scListeners[t] # <<>> /\ Last(scListeners[t]) = <<t, Depth(t)>>
                 /\ scActive' = (scActive \ {<<t, Depth(t)>>}) \cup Silences(t, Depth(t))
           /\ Depth(t) \notin Runs(t) => scActive' = scActive
<1>1. ScTyped /\ RegistryInv /\ Executes(t) /\ scOpen[t] # <<>> /\ scRunning' = scRunning
  BY DEF ScInv, Leaves
<1>2. scOpen' = [scOpen EXCEPT ![t] = Front(@)] /\ scActive' = Restored(t)
  BY DEF Leaves
<1>3. /\ scOpen' \in [ScTasks -> Seq(Scope)]
      /\ Depth(t) \in Nat /\ Depth(t) > 0 /\ Depth(t)' = Depth(t) - 1
      /\ \A u \in ScTasks : Depth(u)' <= ScMaxDepth
      /\ \A u \in ScTasks \ {t} : scOpen'[u] = scOpen[u]
      /\ Runs(t)' = Runs(t) \ {Depth(t)}
      /\ \A i \in 1..Depth(t) - 1 : Silences(t, i)' = Silences(t, i)
      /\ Last(scOpen[t]).run <=> Depth(t) \in Runs(t)
      /\ Last(scOpen[t]).silenced = Silences(t, Depth(t))
  BY <1>1, <1>2, Exited
<1>4. Runs(t) \subseteq 1..Depth(t)
  BY <1>1, Depths
<1>5. ASSUME Depth(t) \in Runs(t)
      PROVE  scListeners[t] # <<>> /\ Last(scListeners[t]) = <<t, Depth(t)>>
  <2>1. t \in {ScMain} \cup scRunning
    BY <1>1, Executing
  <2>2. PICK i \in Runs(t) : /\ Last(scListeners[t]) = <<t, i>>
                            /\ \A k \in Runs(t) : k <= i
    BY <2>1, <1>1, <1>5, LastOwn
  <2>3. i = Depth(t)
    BY <2>2, <1>3, <1>4, <1>5
  <2> QED BY <2>1, <2>2, <2>3, <1>1, <1>5, LastOwn
<1>6. ASSUME Depth(t) \in Runs(t)
      PROVE  scActive' = (scActive \ {<<t, Depth(t)>>}) \cup Silences(t, Depth(t))
  BY <1>2, <1>3, <1>5, <1>6 DEF Restored
<1>7. ASSUME Depth(t) \notin Runs(t) PROVE scActive' = scActive
  BY <1>2, <1>3, <1>7 DEF Restored
<1> QED BY <1>1, <1>3, <1>4, <1>5, <1>6, <1>7

LEMMA ExitLatest ==
    ASSUME NEW t, NEW d \in Nat, d > 0, Runs(t) \subseteq 1..d, Runs(t)' = Runs(t) \ {d}
    PROVE  /\ \A n \in 0..d - 1 : Latest(t, n)' = Latest(t, n) /\ Owned(t, n)' = Owned(t, n)
           /\ d \in Runs(t) => /\ Latest(t, d) = {<<t, d>>}
                               /\ Owned(t, d) = Owned(t, d - 1) \cup {<<t, d>>}
           /\ d \notin Runs(t) => /\ Latest(t, d) = Latest(t, d - 1)
                                  /\ Owned(t, d) = Owned(t, d - 1)
<1>1. ASSUME NEW n \in 0..d - 1
      PROVE  Latest(t, n)' = Latest(t, n) /\ Owned(t, n)' = Owned(t, n)
  <2>1. {i \in Runs(t)' : i <= n} = {i \in Runs(t) : i <= n}
    OBVIOUS
  <2> QED BY <2>1, Below
<1>2. ASSUME d \in Runs(t)
      PROVE  Latest(t, d) = {<<t, d>>} /\ Owned(t, d) = Owned(t, d - 1) \cup {<<t, d>>}
  BY <1>2 DEF Latest, Owned
<1>3. ASSUME d \notin Runs(t)
      PROVE  Latest(t, d) = Latest(t, d - 1) /\ Owned(t, d) = Owned(t, d - 1)
  <2>1. \A i \in Runs(t) : i <= d <=> i <= d - 1
    BY <1>3
  <2> QED BY <2>1 DEF Latest, Owned
<1> QED BY <1>1, <1>2, <1>3

\* Types and registry when a scope is left.
LEMMA ExitRegistry ==
    ASSUME ScInv, NEW t \in ScTasks, NEW heard \in BOOLEAN, Leaves(t, heard)
    PROVE  ScTyped' /\ IdleInv' /\ RegistryInv'
<1>1. ScTyped /\ RegistryInv
  BY DEF ScInv
<1>2. PICK d : d = Depth(t)
  OBVIOUS
<1>3. /\ d \in Nat /\ d > 0 /\ scRunning' = scRunning /\ Executes(t)
      /\ scOpen' \in [ScTasks -> Seq(Scope)] /\ Depth(t)' = d - 1
      /\ \A u \in ScTasks : Depth(u)' <= ScMaxDepth
      /\ \A u \in ScTasks \ {t} : scOpen'[u] = scOpen[u]
      /\ Runs(t)' = Runs(t) \ {d} /\ Runs(t) \subseteq 1..d
      /\ Last(scOpen[t]).run <=> d \in Runs(t)
      /\ d \in Runs(t) =>
            /\ scListeners[t] # <<>> /\ Last(scListeners[t]) = <<t, d>>
            /\ scActive' = (scActive \ {<<t, d>>}) \cup Silences(t, d)
      /\ d \notin Runs(t) => scActive' = scActive
  BY <1>2, ExitFacts
<1>4. scListeners \in [ScTasks -> Seq(Scopes)]
  BY <1>1 DEF ScTyped
<1>80. PICK e : e = <<t, d>>
  OBVIOUS
<1>8. e \in Scopes /\ e = <<t, d>>
  <2>1. \A i \in 1..Depth(t) : <<t, i>> \in Scopes
    BY <1>1, Depths
  <2> QED BY <2>1, <1>2, <1>3, <1>80
<1>110. PICK L : L = scListeners[t]
  OBVIOUS
<1>11. L \in Seq(Scopes) /\ L = scListeners[t]
  BY <1>4, <1>110
<1>12. d \in Runs(t) => /\ Len(L) \in Nat /\ Len(L) > 0 /\ L[Len(L)] = <<t, d>>
                        /\ Front(L) \in Seq(Scopes) /\ Len(Front(L)) = Len(L) - 1
                        /\ \A k \in 1..Len(L) - 1 : Front(L)[k] = L[k]
  BY <1>3, <1>11 DEF Last, Front
<1>13. /\ scListeners' \in [ScTasks -> Seq(Scopes)]
       /\ d \in Runs(t) => scListeners'[t] = Front(L)
       /\ d \notin Runs(t) => scListeners'[t] = L
       /\ \A u \in ScTasks \ {t} : scListeners'[u] = scListeners[u]
  <2>1. CASE d \in Runs(t)
    <3>1. scListeners' = [scListeners EXCEPT ![t] = Front(@)]
      BY <2>1, <1>3 DEF Leaves
    <3> QED BY <2>1, <3>1, <1>4, <1>11, <1>12
  <2>2. CASE d \notin Runs(t)
    <3>1. scListeners' = scListeners
      BY <2>2, <1>3 DEF Leaves
    <3> QED BY <2>2, <3>1, <1>4, <1>11
  <2> QED BY <2>1, <2>2
<1>14. ScTyped'
  <2>1. scActive' \subseteq Scopes
    <3>1. d \in Runs(t) => Silences(t, d) \subseteq Scopes
      <4>1. scOpen[t] \in Seq(Scope) /\ Len(scOpen[t]) = d
        BY <1>1, <1>2 DEF ScTyped, Depth
      <4>2. scOpen[t][d] \in Scope
        BY <4>1, <1>3
      <4> QED BY <4>2 DEF Silences, Scope
    <3> QED BY <3>1, <1>1, <1>3 DEF ScTyped
  <2>2. /\ scOwed' \subseteq scOwed
        /\ scUnheard' \subseteq scUnheard \cup {e}
    BY <1>2, <1>8 DEF Leaves, Depth
  <2>3. scRaised' \in [ScTasks -> {"none", "new", "recorded"}]
    <3>1. PICK f \in {"none", "new", "recorded"} : scRaised' = [scRaised EXCEPT ![t] = f]
      BY DEF Leaves
    <3> QED BY <3>1, <1>1 DEF ScTyped
  <2> QED BY <2>1, <2>2, <2>3, <1>1, <1>3, <1>8, <1>13 DEF ScTyped
<1>16. IdleInv'
  BY <1>3, <1>13, IdleStep
<1>17. RegistryInv'
  <2>1. PICK M : M = scListeners'[t]
    OBVIOUS
  <2>2. t \in {ScMain} \cup scRunning
    BY <1>1, <1>3, Executing
  <2>3. RegistryOf(t, L)
    BY <2>2, <1>1, <1>110 DEF RegistryInv
  <2>4. t # ScMain => Runs(ScMain)' = Runs(ScMain)
    BY <1>3, OthersKept DEF ScTasks
  <2>5. /\ Executes(t) /\ UNCHANGED scRunning
        /\ \A u \in ScTasks \ {t} : scOpen'[u] = scOpen[u]
        /\ \A u \in ScTasks \ {t} : scListeners'[u] = scListeners[u]
    BY <1>3, <1>13
  <2>6. ASSUME d \notin Runs(t) PROVE RegistryOf(t, M)'
    <3>1. M = L /\ Runs(t)' = Runs(t)
      BY <2>1, <2>6, <1>3, <1>13
    <3>2. \A u \in {ScMain, t} : Runs(u)' = Runs(u)
      BY <3>1, <2>4
    <3> QED BY <3>1, <3>2, <2>3 DEF RegistryOf
  <2>7. ASSUME d \in Runs(t) PROVE RegistryOf(t, M)'
    <3>1. /\ Len(L) \in Nat /\ Len(L) > 0 /\ L[Len(L)] = <<t, d>>
          /\ Len(M) = Len(L) - 1 /\ \A k \in 1..Len(L) - 1 : M[k] = L[k]
      BY <2>1, <2>7, <1>12, <1>13
    <3>2. PICK n \in 1..Len(L) : n = Len(L)
      BY <3>1
    <3>3. ASSUME NEW k \in 1..Len(M)
          PROVE  \E u \in {ScMain, t} : \E i \in Runs(u)' : M[k] = <<u, i>>
      <4>1. k \in 1..Len(L) /\ k < n /\ M[k] = L[k]
        BY <3>1, <3>2
      <4>2. PICK u \in {ScMain, t} : \E i \in Runs(u) : L[k] = <<u, i>>
        BY <4>1, <2>3 DEF RegistryOf
      <4>3. PICK i \in Runs(u) : L[k] = <<u, i>>
        BY <4>2
      <4>4. CASE u # t
        BY <4>4, <4>1, <4>2, <4>3, <2>4
      <4>5. CASE u = t
        <5>1. L[n][1] = t /\ L[n][2] = d /\ L[k][1] = t /\ L[k][2] = i
          BY <4>3, <4>5, <3>1, <3>2
        <5>2. i < d
          BY <5>1, <4>1, <2>3 DEF RegistryOf
        <5>3. i \in Runs(t)'
          BY <5>2, <4>3, <4>5, <1>3
        <5> QED BY <5>3, <4>1, <4>3, <4>5
      <4> QED BY <4>4, <4>5
    <3>4. \A k \in 1..Len(M) : \E u \in {ScMain, t} : \E i \in Runs(u)' : M[k] = <<u, i>>
      BY <3>3
    <3>50. \A k \in 1..Len(M) : k \in 1..Len(L) /\ M[k] = L[k]
      BY <3>1
    <3>5. \A k, m \in 1..Len(M) : k < m =>
              (M[m][1] = M[k][1] /\ M[k][2] < M[m][2]) \/ (M[m][1] = t /\ M[k][1] # t)
      BY <3>50, <2>3 DEF RegistryOf
    <3>6. ASSUME NEW j \in Runs(t)' PROVE \E k \in 1..Len(M) : M[k] = <<t, j>>
      <4>1. PICK k \in 1..Len(L) : L[k] = <<t, j>>
        BY <1>3, <2>3 DEF RegistryOf
      <4>2. k # Len(L)
        BY <4>1, <3>1, <1>3
      <4> QED BY <4>1, <4>2, <3>1
    <3>7. \A j \in Runs(t)' : \E k \in 1..Len(M) : M[k] = <<t, j>>
      BY <3>6
    <3> QED BY <3>4, <3>5, <3>7 DEF RegistryOf
  <2>8. RegistryOf(t, M)'
    BY <2>6, <2>7
  <2> QED BY <2>8, <2>5, <2>1, RegistryStep
<1> QED BY <1>14, <1>16, <1>17

\* What listens when the main task leaves a scope.
LEMMA ExitMain ==
    ASSUME ScInv, NEW heard \in BOOLEAN, Leaves(ScMain, heard)
    PROVE  SilencedInv' /\ ActiveInv'
<1>1. ScTyped /\ SilencedInv /\ ActiveInv /\ ScMain \in ScTasks
  BY DEF ScInv, ScTasks
<1>2. PICK d : d = Depth(ScMain)
  OBVIOUS
<1>3. /\ d \in Nat /\ d > 0 /\ scRunning' = scRunning /\ Depth(ScMain)' = d - 1
      /\ Runs(ScMain)' = Runs(ScMain) \ {d} /\ Runs(ScMain) \subseteq 1..d
      /\ \A i \in 1..d - 1 : Silences(ScMain, i)' = Silences(ScMain, i)
      /\ d \in Runs(ScMain) =>
            scActive' = (scActive \ {<<ScMain, d>>}) \cup Silences(ScMain, d)
      /\ d \notin Runs(ScMain) => scActive' = scActive
      /\ Executes(ScMain)
  BY <1>1, <1>2, ExitFacts
<1>4. /\ \A n \in 0..d - 1 : Latest(ScMain, n)' = Latest(ScMain, n)
      /\ d \in Runs(ScMain) => Latest(ScMain, d) = {<<ScMain, d>>}
      /\ d \notin Runs(ScMain) => Latest(ScMain, d) = Latest(ScMain, d - 1)
  BY <1>3, ExitLatest
<1>5. scRunning = {} /\ scActive = Latest(ScMain, d) /\ Outer' = Latest(ScMain, d - 1)'
  BY <1>1, <1>2, <1>3 DEF Executes, ActiveInv, Outer
<1>6. scActive' = Outer'
  <2>1. d - 1 \in 0..d - 1
    BY <1>3
  <2>2. CASE d \in Runs(ScMain)
    <3>1. Silences(ScMain, d) = Latest(ScMain, d - 1)
      BY <2>2, <1>1 DEF SilencedInv
    <3> QED BY <2>1, <2>2, <3>1, <1>3, <1>4, <1>5
  <2>3. CASE d \notin Runs(ScMain)
    BY <2>1, <2>3, <1>3, <1>4, <1>5
  <2> QED BY <2>2, <2>3
<1>7. ActiveInv'
  BY <1>3, <1>5, <1>6 DEF ActiveInv
<1>8. ASSUME NEW i \in Runs(ScMain)'
      PROVE  Silences(ScMain, i)' = Latest(ScMain, i - 1)'
  <2>1. i \in Runs(ScMain) /\ i \in 1..d - 1 /\ i - 1 \in 0..d - 1
    BY <1>3
  <2> QED BY <2>1, <1>1, <1>3, <1>4 DEF SilencedInv
<1>9. SilencedInv'
  BY <1>3, <1>5, <1>8 DEF SilencedInv
<1> QED BY <1>7, <1>9

\* The same for a branch: what it had silenced listens again.
LEMMA ExitBranch ==
    ASSUME ScInv, NEW t \in scRunning, t # ScMain, NEW heard \in BOOLEAN, Leaves(t, heard)
    PROVE  SilencedInv' /\ ActiveInv'
<1>1. ScTyped /\ SilencedInv /\ ActiveInv /\ ScMain \in ScTasks
      /\ t \in ScBranches /\ t \in ScTasks
  BY DEF ScInv, ScTasks, ScTyped
<1>2. PICK d : d = Depth(t)
  OBVIOUS
<1>3. /\ d \in Nat /\ d > 0 /\ scRunning' = scRunning /\ Depth(t)' = d - 1
      /\ Runs(t)' = Runs(t) \ {d} /\ Runs(t) \subseteq 1..d
      /\ \A i \in 1..d - 1 : Silences(t, i)' = Silences(t, i)
      /\ d \in Runs(t) => scActive' = (scActive \ {<<t, d>>}) \cup Silences(t, d)
      /\ d \notin Runs(t) => scActive' = scActive
      /\ \A u \in ScTasks \ {t} : scOpen'[u] = scOpen[u]
  BY <1>1, <1>2, ExitFacts
<1>4. /\ \A n \in 0..d - 1 : Latest(t, n)' = Latest(t, n) /\ Owned(t, n)' = Owned(t, n)
      /\ d \in Runs(t) => Owned(t, d) = Owned(t, d - 1) \cup {<<t, d>>}
      /\ d \notin Runs(t) => /\ Latest(t, d) = Latest(t, d - 1)
                             /\ Owned(t, d) = Owned(t, d - 1)
  BY <1>3, ExitLatest
<1>5. d - 1 \in 0..d - 1
  BY <1>3
<1>6. Outer' = Outer /\ Runs(ScMain)' = Runs(ScMain)
  BY <1>1, <1>3, OuterKept
<1>7. ASSUME NEW u \in ScTasks \ {t}
      PROVE  /\ Depth(u)' = Depth(u) /\ Runs(u)' = Runs(u)
             /\ \A i : Silences(u, i)' = Silences(u, i)
             /\ \A n : Latest(u, n)' = Latest(u, n) /\ Owned(u, n)' = Owned(u, n)
  BY <1>3, OthersKept
<1>8. d \in Runs(t) => /\ Latest(t, d - 1) \subseteq Silences(t, d)
                       /\ Silences(t, d) \subseteq Outer \cup Owned(t, d - 1)
  BY <1>1 DEF SilencedInv
<1>9. ASSUME NEW b \in scRunning, b # t PROVE b \in ScTasks \ {t} /\ b # ScMain
  BY <1>1, <1>9, ScAssumption DEF ScTyped, ScTasks
<1>10. ASSUME NEW b \in scRunning, NEW i \in Runs(b)'
       PROVE  /\ Latest(b, i - 1)' \subseteq Silences(b, i)'
              /\ Silences(b, i)' \subseteq Outer' \cup Owned(b, i - 1)'
  <2>1. CASE b # t
    <3>1. i \in Runs(b)
      BY <2>1, <1>7, <1>9
    <3>2. /\ Silences(b, i)' = Silences(b, i)
          /\ Latest(b, i - 1)' = Latest(b, i - 1) /\ Owned(b, i - 1)' = Owned(b, i - 1)
      BY <2>1, <1>7, <1>9
    <3> QED BY <3>1, <3>2, <1>1, <1>6 DEF SilencedInv
  <2>2. CASE b = t
    <3>1. i \in Runs(t) /\ i \in 1..d - 1 /\ i - 1 \in 0..d - 1
      BY <2>2, <1>3
    <3>2. /\ Silences(t, i)' = Silences(t, i)
          /\ Latest(t, i - 1)' = Latest(t, i - 1) /\ Owned(t, i - 1)' = Owned(t, i - 1)
      BY <3>1, <1>3, <1>4
    <3> QED BY <2>2, <3>1, <3>2, <1>1, <1>6 DEF SilencedInv
  <2> QED BY <2>1, <2>2
<1>11. SilencedInv'
  <2>1. ASSUME NEW i \in Runs(ScMain)'
        PROVE  Silences(ScMain, i)' = Latest(ScMain, i - 1)'
    <3>1. ScMain \in ScTasks \ {t}
      BY <1>1
    <3> QED BY <3>1, <1>1, <1>6, <1>7 DEF SilencedInv
  <2> QED BY <2>1, <1>3, <1>10 DEF SilencedInv
<1>12. scRunning' # {} /\ scRunning' = scRunning
  BY <1>3
<1>13. ASSUME NEW l \in scActive'
       PROVE  l \in Outer' \/ \E b \in scRunning : l \in Owned(b, Depth(b))'
  <2>1. l \in Owned(t, d - 1) => l \in Owned(t, Depth(t))'
    <3>1. Owned(t, Depth(t))' = Owned(t, d - 1)'
      BY <1>3 DEF Owned
    <3> QED BY <3>1, <1>4, <1>5
  <2>2. CASE d \in Runs(t) /\ l \in Silences(t, d)
    BY <2>1, <2>2, <1>6, <1>8
  <2>3. CASE l \in Outer
    BY <2>3, <1>6
  <2>4. CASE (d \in Runs(t) => l # <<t, d>>) /\ \E b \in scRunning : l \in Owned(b, Depth(b))
    <3>1. PICK b \in scRunning : l \in Owned(b, Depth(b))
      BY <2>4
    <3>2. CASE b = t
      BY <3>1, <3>2, <2>1, <2>4, <1>2, <1>4
    <3>3. CASE b # t
      <4>1. Owned(b, Depth(b))' = Owned(b, Depth(b))
        BY <3>3, <1>7, <1>9 DEF Owned
      <4> QED BY <3>1, <4>1
    <3> QED BY <3>2, <3>3
  <2>5. (l \in scActive /\ (d \in Runs(t) => l # <<t, d>>)) \/ (d \in Runs(t) /\ l \in Silences(t, d))
    BY <1>3
  <2> QED BY <2>2, <2>3, <2>4, <2>5, <1>1 DEF ActiveInv
<1>14. ASSUME NEW l \in Outer', l \notin scActive'
       PROVE  \E b \in scRunning : \E i \in Runs(b)' : l \in Silences(b, i)'
  <2>1. l[1] = ScMain
    BY <1>6 DEF Outer, Latest
  <2>2. l \notin scActive /\ (d \in Runs(t) => l \notin Silences(t, d))
    BY <2>1, <1>3, <1>14
  <2>3. PICK b \in scRunning : \E i \in Runs(b) : l \in Silences(b, i)
    BY <2>2, <1>1, <1>6 DEF ActiveInv
  <2>4. PICK i \in Runs(b) : l \in Silences(b, i)
    BY <2>3
  <2>5. i \in Runs(b)' /\ Silences(b, i)' = Silences(b, i)
    <3>1. CASE b = t
      BY <3>1, <2>2, <2>4, <1>3
    <3>2. CASE b # t
      BY <3>2, <1>7, <1>9
    <3> QED BY <3>1, <3>2
  <2> QED BY <2>4, <2>5
<1>15. ASSUME NEW b \in scRunning PROVE Latest(b, Depth(b))' \subseteq scActive'
  <2>1. CASE b = t
    <3>1. Latest(t, Depth(t))' = Latest(t, d - 1)'
      BY <1>3 DEF Latest
    <3>2. Latest(t, d) \subseteq scActive
      BY <1>1, <1>2 DEF ActiveInv
    <3> QED BY <2>1, <3>1, <3>2, <1>3, <1>4, <1>5, <1>8
  <2>2. CASE b # t
    <3>1. Latest(b, Depth(b))' = Latest(b, Depth(b))
      BY <2>2, <1>7, <1>9 DEF Latest
    <3>2. Latest(b, Depth(b)) \subseteq scActive
      BY <1>1 DEF ActiveInv
    <3>3. \A l \in Latest(b, Depth(b)) : l # <<t, d>>
      BY <2>2 DEF Latest
    <3> QED BY <3>1, <3>2, <3>3, <1>3
  <2> QED BY <2>1, <2>2
<1>16. ASSUME NEW b \in scRunning, Depth(b)' > 0 PROVE 1 \in Runs(b)'
  <2>1. CASE b = t
    <3>1. 1 \in Runs(t)
      BY <1>1, <1>2, <1>3 DEF ActiveInv
    <3> QED BY <2>1, <3>1, <1>3, <1>16
  <2>2. CASE b # t
    BY <2>2, <1>1, <1>7, <1>9, <1>16 DEF ActiveInv
  <2> QED BY <2>1, <2>2
<1>17. ActiveInv'
  <2>1. scActive' \subseteq Outer' \cup UNION {Owned(b, Depth(b))' : b \in scRunning'}
    BY <1>12, <1>13
  <2>2. \A l \in Outer' \ scActive' :
           \E b \in scRunning' : \E i \in Runs(b)' : l \in Silences(b, i)'
    BY <1>12, <1>14
  <2>3. \A b \in scRunning' : /\ Latest(b, Depth(b))' \subseteq scActive'
                              /\ Depth(b)' > 0 => 1 \in Runs(b)'
    BY <1>12, <1>15, <1>16
  <2> QED BY <2>1, <2>2, <2>3, <1>12 DEF ActiveInv
<1> QED BY <1>11, <1>17

-----------------------------------------------------------------------------
(* The ends of spans.                                                      *)

LEMMA StartsEnter ==
    ASSUME ScInv, NEW t \in ScTasks, NEW run \in BOOLEAN, ScEnter(t, run)
    PROVE  StartsAreEnded'
<1>1. ScTyped /\ StartsAreEnded
  BY DEF ScInv
<1>2. PICK d, sil : EnterEffect(t, run, d, sil)
  BY EnterFacts
<1>3. PICK n : n = <<t, d + 1>>
  OBVIOUS
<1>4. /\ d \in Nat /\ d = Depth(t) /\ Depth(t)' = d + 1
      /\ \A u \in ScTasks \ {t} : scOpen'[u] = scOpen[u]
  BY <1>2 DEF EnterEffect
<1>5. scOwed' = scOwed \cup ((1..ScProcessors) \X {n}) /\ scUnheard' = scUnheard
  BY <1>3, <1>4 DEF ScEnter, Announced, Depth
<1>6. ASSUME NEW p \in Processors, NEW s \in Scopes \ scUnheard
      PROVE  <<p, s>> \in scOwed' <=> s[2] <= Len(scOpen'[s[1]])
  <2>1. PICK u \in ScTasks, i \in 1..ScMaxDepth : s = <<u, i>>
    BY DEF Scopes
  <2>2. s[1] = u /\ s[2] = i /\ i \in Nat
    BY <2>1, ScAssumption
  <2>3. <<p, s>> \in scOwed <=> i <= Len(scOpen[u])
    BY <2>2, <1>1 DEF StartsAreEnded
  <2>4. <<p, s>> \in scOwed' <=> <<p, s>> \in scOwed \/ s = n
    BY <1>5 DEF Processors
  <2>5. CASE u # t
    BY <2>1, <2>2, <2>3, <2>4, <2>5, <1>3, <1>4
  <2>6. CASE u = t
    <3>1. Len(scOpen[u]) = d /\ Len(scOpen'[u]) = d + 1
      BY <2>6, <1>4 DEF Depth
    <3>2. s = n <=> i = d + 1
      BY <2>1, <2>6, <1>3
    <3> QED BY <3>1, <3>2, <2>2, <2>3, <2>4, <1>4
  <2> QED BY <2>5, <2>6
<1> QED BY <1>5, <1>6 DEF StartsAreEnded

LEMMA StartsExit ==
    ASSUME ScInv, NEW t \in ScTasks, NEW heard \in BOOLEAN, Leaves(t, heard)
    PROVE  StartsAreEnded'
<1>1. ScTyped /\ StartsAreEnded
  BY DEF ScInv
<1>2. PICK d : d = Depth(t)
  OBVIOUS
<1>3. PICK n : n = <<t, d>>
  OBVIOUS
<1>4. /\ d \in Nat /\ d > 0 /\ Depth(t)' = d - 1
      /\ \A u \in ScTasks \ {t} : scOpen'[u] = scOpen[u]
  BY <1>2, ExitFacts
<1>5. /\ heard => scOwed' = scOwed \ ((1..ScProcessors) \X {n}) /\ scUnheard' = scUnheard
      /\ ~heard => scOwed' = scOwed /\ scUnheard' = scUnheard \cup {n}
  BY <1>2, <1>3 DEF Leaves, Announced, Depth
<1>6. ASSUME NEW p \in Processors, NEW s \in Scopes \ scUnheard'
      PROVE  <<p, s>> \in scOwed' <=> s[2] <= Len(scOpen'[s[1]])
  <2>1. PICK u \in ScTasks, i \in 1..ScMaxDepth : s = <<u, i>>
    BY DEF Scopes
  <2>2. s[1] = u /\ s[2] = i /\ i \in Nat
    BY <2>1, ScAssumption
  <2>3. <<p, s>> \in scOwed <=> i <= Len(scOpen[u])
    <3>1. s \in Scopes \ scUnheard
      BY <1>5
    <3> QED BY <3>1, <2>2, <1>1 DEF StartsAreEnded
  <2>4. heard => (<<p, s>> \in scOwed' <=> <<p, s>> \in scOwed /\ s # n)
    BY <1>5 DEF Processors
  <2>5. ~heard => (<<p, s>> \in scOwed' <=> <<p, s>> \in scOwed) /\ s # n
    BY <1>5
  <2>6. CASE u # t
    <3>1. s # n
      BY <2>1, <2>6, <1>3
    <3> QED BY <3>1, <2>2, <2>3, <2>4, <2>5, <2>6, <1>4
  <2>7. CASE u = t
    <3>1. Len(scOpen[u]) = d /\ Len(scOpen'[u]) = d - 1
      BY <2>7, <1>2, <1>4 DEF Depth
    <3>2. s = n <=> i = d
      BY <2>1, <2>7, <1>3
    <3> QED BY <3>1, <3>2, <2>2, <2>3, <2>4, <2>5, <1>4
  <2> QED BY <2>6, <2>7
<1> QED BY <1>6 DEF StartsAreEnded

-----------------------------------------------------------------------------
(* The stacks of spans.                                                    *)

LEMMA ConcatFacts ==
    ASSUME NEW T, NEW A \in Seq(T), NEW B \in Seq(T)
    PROVE  /\ A \o B \in Seq(T) /\ Len(A \o B) = Len(A) + Len(B)
           /\ Len(A) \in Nat /\ Len(B) \in Nat
           /\ (A \o B) \o <<>> = A \o B
OBVIOUS

LEMMA AppendConcat ==
    ASSUME NEW T, NEW A \in Seq(T), NEW B \in Seq(T), NEW e \in T
    PROVE  (A \o B) \o <<e>> = Append(A \o B, e)
OBVIOUS

LEMMA AppendFacts ==
    ASSUME NEW T, NEW S \in Seq(T), NEW e \in T
    PROVE  Append(S, e) \in Seq(T) /\ Len(Append(S, e)) = Len(S) + 1
OBVIOUS

LEMMA FrontFacts ==
    ASSUME NEW T, NEW S \in Seq(T), Len(S) > 0
    PROVE  Front(S) \in Seq(T) /\ Len(Front(S)) = Len(S) - 1
BY DEF Front

LEMMA ScopesAreSpans == Scopes \subseteq Spans /\ \A t \in ScTasks : StreamSpan(t) \in Spans
BY ScAssumption DEF Scopes, Spans, StreamSpan

LEMMA OpenedTyped ==
    ASSUME ScTyped, NEW t \in ScTasks
    PROVE  Opened(t) \in Seq(Spans) /\ Len(Opened(t)) = Depth(t) /\ Depth(t) \in Nat
<1>1. Depth(t) \in Nat /\ \A i \in 1..Depth(t) : <<t, i>> \in Spans
  BY Depths, ScopesAreSpans
<1> QED BY <1>1 DEF Opened, Depth

\* The stack of a task, before a step.
LEMMA StackBefore ==
    ASSUME ScInv, NEW t \in ScTasks
    PROVE  /\ Base(t) \in Seq(Spans) /\ Opened(t) \in Seq(Spans)
           /\ scSpans[t] \in Seq(Spans)
           /\ Len(Opened(t)) = Depth(t) /\ Depth(t) \in Nat
           /\ t \in scBroken => Len(scSpans[t]) >
                 Len(Base(t)) + Depth(t) + (IF t \in scStreaming THEN 1 ELSE 0)
           /\ t \notin scBroken /\ t \notin scStreaming =>
                 scSpans[t] = Base(t) \o Opened(t)
           /\ t \notin scBroken /\ t \in scStreaming =>
                 scSpans[t] = Append(Base(t) \o Opened(t), StreamSpan(t))
<1>10. PICK A : A = Base(t)
  OBVIOUS
<1>11. PICK O : O = Opened(t)
  OBVIOUS
<1>12. PICK S : S = scSpans[t]
  OBVIOUS
<1>1. ScTyped /\ SpansInv /\ ScMain \in ScTasks
  BY DEF ScInv, ScTasks
<1>2. A \in Seq(Spans) /\ O \in Seq(Spans) /\ Len(O) = Depth(t) /\ Depth(t) \in Nat
  BY <1>1, <1>10, <1>11, OpenedTyped DEF Base
<1>3. S \in Seq(Spans) /\ StackOf(t)
  BY <1>1, <1>12 DEF SpansInv
<1>40. PICK e : e = StreamSpan(t)
  OBVIOUS
<1>4. e \in Spans
  BY <1>40, ScopesAreSpans
<1>5. ASSUME t \notin scBroken PROVE S = A \o O \o Streamed(t)
  BY <1>3, <1>5, <1>10, <1>11, <1>12 DEF StackOf
<1>50. ASSUME t \notin scBroken, t \in scStreaming PROVE S = Append(A \o O, e)
  <2>1. Streamed(t) = <<e>>
    BY <1>40, <1>50 DEF Streamed
  <2>2. (A \o O) \o <<e>> = Append(A \o O, e)
    BY <1>2, <1>4, AppendConcat
  <2> QED BY <2>1, <2>2, <1>5, <1>50
<1>51. ASSUME t \notin scBroken, t \notin scStreaming PROVE S = A \o O
  <2>1. Streamed(t) = <<>>
    BY <1>51 DEF Streamed
  <2>2. (A \o O) \o <<>> = A \o O
    BY <1>2, ConcatFacts
  <2> QED BY <2>1, <2>2, <1>5, <1>51
<1>6. t \in scBroken => Len(S) > Len(A) + Depth(t) + (IF t \in scStreaming THEN 1 ELSE 0)
  BY <1>3, <1>10, <1>12 DEF StackOf
<1> QED BY <1>2, <1>3, <1>50, <1>51, <1>6, <1>10, <1>11, <1>12, <1>40

\* What a step of t has to say of its stack.
LEMMA SpansStep ==
    ASSUME ScInv, NEW t \in ScTasks, Executes(t), UNCHANGED scRunning,
           \A u \in ScTasks \ {t} : scOpen'[u] = scOpen[u],
           NEW S \in Seq(Spans), scSpans' = [scSpans EXCEPT ![t] = S],
           scStreaming' \ {t} = scStreaming \ {t}, scBroken' \ {t} = scBroken \ {t},
           t \in scStreaming' => Depth(t)' > 0,
           Base(t) \in Seq(Spans), Opened(t)' \in Seq(Spans),
           t \in scBroken' => Len(S) >
               Len(Base(t)) + Depth(t)' + (IF t \in scStreaming' THEN 1 ELSE 0),
           t \notin scBroken' /\ t \notin scStreaming' => S = Base(t) \o Opened(t)',
           t \notin scBroken' /\ t \in scStreaming' =>
               S = Append(Base(t) \o Opened(t)', StreamSpan(t))
    PROVE  SpansInv'
<1>1. ScTyped /\ SpansInv
  BY DEF ScInv
<1>2. (t = ScMain /\ scRunning = {}) \/ (t \in scRunning /\ t # ScMain)
  BY <1>1, Executing
<1>3. \A u \in ScTasks : Base(u)' = Base(u)
  <2>1. scRunning # {} => Opened(ScMain)' = Opened(ScMain)
    BY <1>2, OuterKept DEF ScTasks
  <2> QED BY <2>1 DEF Base
<1>4. /\ scSpans' \in [ScTasks -> Seq(Spans)] /\ scSpans'[t] = S
      /\ \A u \in ScTasks \ {t} : scSpans'[u] = scSpans[u]
  BY <1>1 DEF SpansInv
<1>5. /\ scStreaming' \subseteq ScTasks /\ scBroken' \subseteq ScTasks
      /\ scBroken' \subseteq {ScMain} \cup scRunning'
  BY <1>1, <1>2 DEF SpansInv
<1>6. ASSUME NEW u \in scStreaming' PROVE Depth(u)' > 0
  <2>1. CASE u # t
    BY <2>1, <1>1, <1>5 DEF SpansInv, Depth
  <2> QED BY <2>1
<1>7. ASSUME NEW u \in ScTasks PROVE StackOf(u)'
  <2>1. CASE u = t
    <3>1. PICK A : A = Base(t)
      OBVIOUS
    <3>2. PICK O : O = Opened(t)'
      OBVIOUS
    <3>3. PICK e : e = StreamSpan(t)
      OBVIOUS
    <3>4. A \in Seq(Spans) /\ O \in Seq(Spans) /\ e \in Spans
      BY <3>1, <3>2, <3>3, ScopesAreSpans
    <3>50. (A \o O) \o <<e>> = Append(A \o O, e)
      BY <3>4, AppendConcat
    <3>5. (A \o O) \o <<>> = A \o O
      BY <3>4, ConcatFacts
    <3>6. Streamed(t)' = IF t \in scStreaming' THEN <<e>> ELSE <<>>
      BY <3>3 DEF Streamed, StreamSpan
    <3>7. t \notin scBroken' => S = A \o O \o Streamed(t)'
      BY <3>1, <3>2, <3>3, <3>5, <3>50, <3>6
    <3> QED BY <2>1, <3>1, <3>2, <3>7, <1>3, <1>4 DEF StackOf
  <2>2. CASE u # t
    <3>1. Opened(u)' = Opened(u) /\ Depth(u)' = Depth(u)
      BY <2>2, OthersKept
    <3>2. (u \in scStreaming' <=> u \in scStreaming) /\ (u \in scBroken' <=> u \in scBroken)
      BY <2>2
    <3>3. Streamed(u)' = Streamed(u)
      BY <3>2 DEF Streamed
    <3> QED BY <2>2, <3>1, <3>2, <3>3, <1>1, <1>3, <1>4 DEF StackOf, SpansInv
  <2> QED BY <2>1, <2>2
<1> QED BY <1>4, <1>5, <1>6, <1>7 DEF SpansInv

\* Nothing is opened or left.
LEMMA SpansSame ==
    ASSUME ScInv, UNCHANGED <<scOpen, scSpans, scRunning, scStreaming, scBroken>>
    PROVE  SpansInv'
<1>1. SpansInv
  BY DEF ScInv
<1>2. \A u : Depth(u)' = Depth(u) /\ Opened(u)' = Opened(u)
  BY OthersKept
<1>3. \A u : Base(u)' = Base(u) /\ Streamed(u)' = Streamed(u)
  BY <1>2 DEF Base, Streamed
<1>4. \A u : StackOf(u)' = StackOf(u)
  BY <1>2, <1>3 DEF StackOf
<1> QED BY <1>1, <1>2, <1>4 DEF SpansInv

\* The span that is opened is on top.
LEMMA SpansEnter ==
    ASSUME ScInv, NEW t \in ScTasks, NEW run \in BOOLEAN, ScEnter(t, run)
    PROVE  SpansInv'
<1>1. PICK d, sil : EnterEffect(t, run, d, sil)
  BY EnterFacts
<1>2. PICK e : e = <<t, d + 1>>
  OBVIOUS
<1>3. PICK A : A = Base(t)
  OBVIOUS
<1>4. PICK O : O = Opened(t)
  OBVIOUS
<1>5. PICK S : S = scSpans[t]
  OBVIOUS
<1>6. /\ d = Depth(t) /\ d \in Nat /\ Depth(t)' = d + 1 /\ Executes(t)
      /\ scRunning' = scRunning /\ e \in Spans
      /\ \A u \in ScTasks \ {t} : scOpen'[u] = scOpen[u]
  BY <1>1, <1>2, ScopesAreSpans DEF EnterEffect
<1>7. /\ t \notin scStreaming /\ scStreaming' = scStreaming /\ scBroken' = scBroken
      /\ scSpans' = [scSpans EXCEPT ![t] = Append(S, e)]
  BY <1>2, <1>5, <1>6 DEF ScEnter, MayOpen, scStreamVars, Depth
<1>8. /\ A \in Seq(Spans) /\ O \in Seq(Spans) /\ S \in Seq(Spans)
      /\ t \in scBroken => Len(S) > Len(A) + d + (IF t \in scStreaming THEN 1 ELSE 0)
      /\ t \notin scBroken /\ t \notin scStreaming => S = A \o O
  BY <1>3, <1>4, <1>5, <1>6, StackBefore
<1>9. Opened(t)' = Append(O, e)
  BY <1>2, <1>4, <1>6, OpenedEntered
<1>10. PICK P : P = Append(O, e)
  OBVIOUS
<1>11. PICK Z : Z = Append(S, e)
  OBVIOUS
<1>12. P \in Seq(Spans)
  BY <1>6, <1>8, <1>10, AppendFacts
<1>13. Z \in Seq(Spans) /\ Len(Z) = Len(S) + 1
  BY <1>6, <1>8, <1>11, AppendFacts
<1>14. Append(A \o O, e) = A \o Append(O, e)
  <2>1. A \in Seq(Spans) /\ O \in Seq(Spans) /\ e \in Spans
    BY <1>6, <1>8
  <2> QED BY ONLY <2>1
<1>15. t \notin scBroken => Z = A \o P
  BY <1>7, <1>8, <1>10, <1>11, <1>14
<1>16. t \in scBroken => Len(Z) > Len(A) + (d + 1)
  <2>1. Len(A) \in Nat /\ Len(S) \in Nat
    BY <1>8
  <2> QED BY <2>1, <1>6, <1>7, <1>8, <1>13
<1>17. t \in scBroken' =>
           Len(Z) > Len(Base(t)) + Depth(t)' + (IF t \in scStreaming' THEN 1 ELSE 0)
  <2>1. Len(A) \in Nat
    BY <1>8
  <2> QED BY <2>1, <1>3, <1>6, <1>7, <1>16
<1>18. scSpans' = [scSpans EXCEPT ![t] = Z]
  BY <1>7, <1>11
<1>19. Base(t) \in Seq(Spans) /\ Opened(t)' \in Seq(Spans)
       /\ (t \notin scBroken' => Z = Base(t) \o Opened(t)')
  BY <1>3, <1>7, <1>8, <1>9, <1>10, <1>12, <1>15
<1> QED BY <1>6, <1>7, <1>13, <1>17, <1>18, <1>19, SpansStep

\* The scopes of a task without the innermost.
LEMMA OpenedLess ==
    ASSUME ScTyped, NEW t \in ScTasks, Depth(t) > 0, Depth(t)' = Depth(t) - 1
    PROVE  Opened(t)' \in Seq(Spans)
<1>1. PICK d : d = Depth(t)
  OBVIOUS
<1>2. d \in Nat /\ \A i \in 1..d : <<t, i>> \in Spans
  BY <1>1, Depths, ScopesAreSpans
<1>3. Opened(t)' = [i \in 1..d - 1 |-> <<t, i>>]
  BY <1>1 DEF Opened, Depth
<1> QED BY <1>1, <1>2, <1>3

\* The span on top is removed.
LEMMA SpansExit ==
    ASSUME ScInv, NEW t \in ScTasks, NEW heard \in BOOLEAN, ScExit(t, heard)
    PROVE  SpansInv'
<1>1. PICK d : d = Depth(t)
  OBVIOUS
<1>2. PICK e : e = <<t, d>>
  OBVIOUS
<1>3. PICK A : A = Base(t)
  OBVIOUS
<1>4. PICK P : P = Opened(t)'
  OBVIOUS
<1>5. PICK S : S = scSpans[t]
  OBVIOUS
<1>6. /\ d \in Nat /\ d > 0 /\ Depth(t)' = d - 1 /\ Executes(t)
      /\ scRunning' = scRunning /\ ScTyped
      /\ \A u \in ScTasks \ {t} : scOpen'[u] = scOpen[u]
  BY <1>1, ExitLeaves, ExitFacts DEF ScInv
<1>7. /\ t \notin scStreaming /\ scStreaming' = scStreaming /\ scBroken' = scBroken
      /\ scSpans' = [scSpans EXCEPT ![t] = Front(S)]
  BY <1>5 DEF ScExit, Popped, scStreamVars
<1>8. /\ A \in Seq(Spans) /\ S \in Seq(Spans)
      /\ t \in scBroken => Len(S) > Len(A) + d + (IF t \in scStreaming THEN 1 ELSE 0)
      /\ t \notin scBroken /\ t \notin scStreaming => S = A \o Opened(t)
  BY <1>1, <1>3, <1>5, StackBefore
<1>9. Opened(t) = Append(P, e)
  BY <1>1, <1>2, <1>4, <1>6, OpenedExited
<1>10. P \in Seq(Spans)
  BY <1>1, <1>4, <1>6, OpenedLess
<1>11. e \in Spans
  <2>1. \A i \in 1..d : <<t, i>> \in Spans
    BY <1>1, <1>6, Depths, ScopesAreSpans
  <2> QED BY <2>1, <1>2, <1>6
<1>12. PICK Z : Z = Front(S)
  OBVIOUS
<1>13. PICK X : X = A \o P
  OBVIOUS
<1>14. X \in Seq(Spans)
  BY <1>8, <1>10, <1>13, ConcatFacts
<1>15. Append(X, e) = A \o Append(P, e)
  <2>1. A \in Seq(Spans) /\ P \in Seq(Spans) /\ e \in Spans
    BY <1>8, <1>10, <1>11
  <2>2. Append(A \o P, e) = A \o Append(P, e)
    BY ONLY <2>1
  <2> QED BY <2>2, <1>13
<1>16. Front(Append(X, e)) = X
  BY <1>11, <1>14, FrontOfAppend
<1>17. ASSUME t \notin scBroken PROVE Z = X
  BY <1>7, <1>8, <1>9, <1>12, <1>15, <1>16, <1>17
<1>18. ASSUME t \in scBroken
       PROVE  Z \in Seq(Spans) /\ Len(Z) > Len(A) + (d - 1)
  <2>1. Len(A) \in Nat /\ Len(S) \in Nat
    BY <1>8
  <2>2. Len(S) > 0 /\ Len(S) > Len(A) + d
    BY <2>1, <1>6, <1>7, <1>8, <1>18
  <2>3. Z \in Seq(Spans) /\ Len(Z) = Len(S) - 1
    BY <2>2, <1>8, <1>12, FrontFacts
  <2> QED BY <2>1, <2>2, <2>3, <1>6
<1>19. Z \in Seq(Spans)
  BY <1>14, <1>17, <1>18
<1>20. t \in scBroken' =>
           Len(Z) > Len(Base(t)) + Depth(t)' + (IF t \in scStreaming' THEN 1 ELSE 0)
  <2>1. Len(A) \in Nat
    BY <1>8
  <2> QED BY <2>1, <1>3, <1>6, <1>7, <1>18
<1>21. scSpans' = [scSpans EXCEPT ![t] = Z]
  BY <1>7, <1>12
<1>22. Base(t) \in Seq(Spans) /\ Opened(t)' \in Seq(Spans)
       /\ (t \notin scBroken' => Z = Base(t) \o Opened(t)')
  BY <1>3, <1>4, <1>7, <1>8, <1>10, <1>13, <1>17
<1> QED BY <1>6, <1>7, <1>19, <1>20, <1>21, <1>22, SpansStep

\* The span of a message that is streamed is on top, until the stream ends or
\* breaks.
LEMMA SpansStream ==
    ASSUME ScInv, NEW t \in ScTasks, ScStreamStart(t) \/ ScStreamEnd(t) \/ ScFail(t)
    PROVE  SpansInv'
<1>1. PICK d : d = Depth(t)
  OBVIOUS
<1>2. PICK e : e = StreamSpan(t)
  OBVIOUS
<1>3. PICK X : X = Base(t) \o Opened(t)
  OBVIOUS
<1>4. PICK n : n = Len(Base(t))
  OBVIOUS
<1>5. PICK S : S = scSpans[t]
  OBVIOUS
<1>6. ScTyped /\ SpansInv /\ e \in Spans
  BY <1>2, ScopesAreSpans DEF ScInv
<1>7. /\ Base(t) \in Seq(Spans) /\ Opened(t) \in Seq(Spans) /\ S \in Seq(Spans)
      /\ Len(Opened(t)) = d /\ d \in Nat
      /\ t \in scBroken => Len(S) > n + d + (IF t \in scStreaming THEN 1 ELSE 0)
      /\ t \notin scBroken /\ t \notin scStreaming => S = X
      /\ t \notin scBroken /\ t \in scStreaming => S = Append(X, e)
  BY <1>1, <1>2, <1>3, <1>4, <1>5, StackBefore
<1>8. X \in Seq(Spans) /\ Len(X) = n + d /\ n \in Nat /\ Len(S) \in Nat
  BY <1>3, <1>4, <1>7, ConcatFacts
<1>9. Len(Append(X, e)) = Len(X) + 1
  BY <1>6, <1>8, AppendFacts
<1>10. /\ Executes(t) /\ scRunning' = scRunning /\ scOpen' = scOpen
       /\ Opened(t)' = Opened(t) /\ Depth(t)' = d
  BY <1>1 DEF ScStreamStart, ScStreamEnd, ScFail, Opened, Depth
<1>11. Base(t) \in Seq(Spans) /\ Opened(t)' \in Seq(Spans) /\ X = Base(t) \o Opened(t)'
  BY <1>3, <1>7, <1>10
<1>12. scSpans \in [ScTasks -> Seq(Spans)]
  BY <1>6 DEF SpansInv
<1>13. ASSUME ScStreamStart(t) PROVE SpansInv'
  <2>1. PICK Z : Z = Append(S, e)
    OBVIOUS
  <2>2. /\ t \notin scStreaming /\ scStreaming' = scStreaming \cup {t}
        /\ scBroken' = scBroken /\ scSpans' = [scSpans EXCEPT ![t] = Z]
    BY <2>1, <1>2, <1>5, <1>13 DEF ScStreamStart
  <2>3. d > 0
    <3>1. PICK q : q = scOpen[t]
      OBVIOUS
    <3>2. q \in Seq(Scope) /\ q # <<>>
      BY <3>1, <1>6, <1>13 DEF ScStreamStart, ScTyped
    <3> QED BY <3>1, <3>2, <1>1 DEF Depth
  <2>4. Z \in Seq(Spans) /\ Len(Z) = Len(S) + 1
    BY <2>1, <1>6, <1>7, AppendFacts
  <2>5. t \in scBroken' => Len(Z) > n + d + (IF t \in scStreaming' THEN 1 ELSE 0)
    BY <2>2, <2>4, <1>7, <1>8
  <2>6. t \in scBroken' =>
           Len(Z) > Len(Base(t)) + Depth(t)' + (IF t \in scStreaming' THEN 1 ELSE 0)
    BY <2>5, <1>4, <1>10
  <2>7. t \notin scBroken' => Z = Append(Base(t) \o Opened(t)', StreamSpan(t))
    BY <2>1, <2>2, <1>2, <1>7, <1>11
  <2>8. Depth(t)' > 0 /\ t \in scStreaming' /\ scStreaming' \ {t} = scStreaming \ {t}
    BY <2>2, <2>3, <1>10
  <2> QED BY <2>2, <2>4, <2>6, <2>7, <2>8, <1>10, <1>11, SpansStep
<1>14. ASSUME ScStreamEnd(t) PROVE SpansInv'
  <2>1. PICK Z : Z = Front(S)
    OBVIOUS
  <2>2. /\ t \in scStreaming /\ scStreaming' = scStreaming \ {t}
        /\ scBroken' = scBroken /\ scSpans' = [scSpans EXCEPT ![t] = Z]
    BY <2>1, <1>5, <1>14 DEF ScStreamEnd, Popped
  <2>3. ASSUME t \notin scBroken PROVE Z = X
    <3>1. S = Append(X, e)
      BY <2>2, <2>3, <1>7
    <3>2. Front(Append(X, e)) = X
      BY <1>6, <1>8, FrontOfAppend
    <3> QED BY <3>1, <3>2, <2>1
  <2>4. ASSUME t \in scBroken PROVE Z \in Seq(Spans) /\ Len(Z) > n + d
    <3>1. Len(S) > 0 /\ Len(S) > n + d + 1
      BY <2>2, <2>4, <1>7, <1>8
    <3>2. Z \in Seq(Spans) /\ Len(Z) = Len(S) - 1
      BY <3>1, <2>1, <1>7, FrontFacts
    <3> QED BY <3>1, <3>2, <1>7, <1>8
  <2>5. Z \in Seq(Spans)
    BY <2>3, <2>4, <1>8
  <2>6. t \in scBroken' =>
           Len(Z) > Len(Base(t)) + Depth(t)' + (IF t \in scStreaming' THEN 1 ELSE 0)
    BY <2>2, <2>4, <1>4, <1>7, <1>8, <1>10
  <2>7. t \notin scBroken' => Z = Base(t) \o Opened(t)'
    BY <2>2, <2>3, <1>11
  <2>8. t \notin scStreaming' /\ scStreaming' \ {t} = scStreaming \ {t}
    BY <2>2
  <2> QED BY <2>2, <2>5, <2>6, <2>7, <2>8, <1>10, <1>11, SpansStep
<1>15. ASSUME ScFail(t) PROVE SpansInv'
  <2>1. /\ scStreaming' = scStreaming \ {t}
        /\ scBroken' = scBroken \cup ({t} \cap scStreaming)
        /\ scSpans' = [scSpans EXCEPT ![t] = S]
    BY <1>5, <1>12, <1>15 DEF ScFail
  <2>2. t \in scBroken' => Len(S) > n + d
    <3>1. t \in scStreaming /\ t \notin scBroken => Len(S) = n + d + 1
      BY <1>7, <1>8, <1>9
    <3> QED BY <3>1, <2>1, <1>7, <1>8
  <2>3. t \in scBroken' =>
           Len(S) > Len(Base(t)) + Depth(t)' + (IF t \in scStreaming' THEN 1 ELSE 0)
    BY <2>1, <2>2, <1>4, <1>7, <1>8, <1>10
  <2>4. t \notin scBroken' => S = Base(t) \o Opened(t)'
    BY <2>1, <1>7, <1>11
  <2>5. t \notin scStreaming' /\ scStreaming' \ {t} = scStreaming \ {t}
        /\ scBroken' \ {t} = scBroken \ {t}
    BY <2>1
  <2> QED BY <2>1, <2>3, <2>4, <2>5, <1>7, <1>10, <1>11, SpansStep
<1> QED BY <1>13, <1>14, <1>15

\* The span of a generation nobody reads any more stays.
LEMMA SpansAbandon ==
    ASSUME ScInv, NEW t \in ScTasks, ScAbandon(t)
    PROVE  SpansInv'
<1>1. PICK d : d = Depth(t)
  OBVIOUS
<1>2. PICK e : e = StreamSpan(t)
  OBVIOUS
<1>3. PICK X : X = Base(t) \o Opened(t)
  OBVIOUS
<1>4. PICK n : n = Len(Base(t))
  OBVIOUS
<1>5. PICK S : S = scSpans[t]
  OBVIOUS
<1>6. /\ d \in Nat /\ d > 0 /\ Depth(t)' = d - 1 /\ Executes(t)
      /\ scRunning' = scRunning /\ ScTyped /\ SpansInv /\ e \in Spans
      /\ \A u \in ScTasks \ {t} : scOpen'[u] = scOpen[u]
  BY <1>1, <1>2, AbandonLeaves, ExitFacts, ScopesAreSpans DEF ScInv
<1>7. /\ Base(t) \in Seq(Spans) /\ Opened(t) \in Seq(Spans) /\ S \in Seq(Spans)
      /\ Len(Opened(t)) = d
      /\ t \in scBroken => Len(S) > n + d + (IF t \in scStreaming THEN 1 ELSE 0)
      /\ t \notin scBroken /\ t \notin scStreaming => S = X
      /\ t \notin scBroken /\ t \in scStreaming => S = Append(X, e)
  BY <1>1, <1>2, <1>3, <1>4, <1>5, StackBefore
<1>8. X \in Seq(Spans) /\ Len(X) = n + d /\ n \in Nat /\ Len(S) \in Nat
  BY <1>3, <1>4, <1>7, ConcatFacts
<1>9. Len(Append(X, e)) = Len(X) + 1
  BY <1>6, <1>8, AppendFacts
<1>10. /\ scStreaming' = scStreaming \ {t} /\ scBroken' = scBroken \cup {t}
       /\ scSpans' = [scSpans EXCEPT ![t] = S]
  BY <1>5, <1>6 DEF ScAbandon, SpansInv
<1>11. Len(S) > n + (d - 1)
  <2>1. CASE t \in scBroken
    BY <2>1, <1>6, <1>7, <1>8
  <2>2. CASE t \notin scBroken
    <3>1. Len(S) = n + d \/ Len(S) = n + d + 1
      BY <2>2, <1>7, <1>8, <1>9
    <3> QED BY <3>1, <1>6, <1>8
  <2> QED BY <2>1, <2>2
<1>12. Len(S) > Len(Base(t)) + Depth(t)' + (IF t \in scStreaming' THEN 1 ELSE 0)
  BY <1>4, <1>6, <1>8, <1>10, <1>11
<1>13. Opened(t)' \in Seq(Spans)
  BY <1>1, <1>6, OpenedLess
<1>14. /\ t \notin scStreaming' /\ scStreaming' \ {t} = scStreaming \ {t}
       /\ t \in scBroken' /\ scBroken' \ {t} = scBroken \ {t}
  BY <1>10
<1> QED BY <1>6, <1>7, <1>10, <1>12, <1>13, <1>14, SpansStep

-----------------------------------------------------------------------------
(* Steps that open and leave nothing.                                      *)

\* What the invariants speak of, but for the spans, is left alone.
LEMMA Quiet ==
    ASSUME ScInv, UNCHANGED <<scOpen, scListeners, scActive, scRunning>>
    PROVE  IdleInv' /\ RegistryInv' /\ SilencedInv' /\ ActiveInv'
<1>1. IdleInv /\ RegistryInv /\ SilencedInv /\ ActiveInv
  BY DEF ScInv
<1>2. \A u : /\ Depth(u)' = Depth(u) /\ Runs(u)' = Runs(u) /\ Opened(u)' = Opened(u)
             /\ \A i : Silences(u, i)' = Silences(u, i)
             /\ \A n : Latest(u, n)' = Latest(u, n) /\ Owned(u, n)' = Owned(u, n)
  BY OthersKept
<1>3. Outer' = Outer
  BY OuterKept
<1>4. IdleInv'
  BY <1>1 DEF IdleInv
<1>5. RegistryInv'
  <2>1. ASSUME NEW t \in {ScMain} \cup scRunning
        PROVE  \E L \in {scListeners'[t]} : RegistryOf(t, L)'
    <3>1. PICK L : L = scListeners[t] /\ RegistryOf(t, L)
      BY <1>1 DEF RegistryInv
    <3>2. \A u \in {ScMain, t} : Runs(u)' = Runs(u)
      BY <1>2
    <3>3. RegistryOf(t, L)'
      BY <3>1, <3>2 DEF RegistryOf
    <3> QED BY <3>1, <3>3
  <2> QED BY <2>1 DEF RegistryInv
<1>6. SilencedInv'
  BY <1>1, <1>2, <1>3 DEF SilencedInv
<1>7. ActiveInv'
  <2>1. \A b : /\ Latest(b, Depth(b))' = Latest(b, Depth(b))
               /\ Owned(b, Depth(b))' = Owned(b, Depth(b))
    BY <1>2 DEF Latest, Owned
  <2> QED BY <2>1, <1>1, <1>2, <1>3 DEF ActiveInv
<1> QED BY <1>4, <1>5, <1>6, <1>7

LEMMA EnterFailsInv ==
    ASSUME ScInv, NEW t \in ScTasks, NEW run \in BOOLEAN, NEW k \in 0..ScProcessors,
           NEW heard \in BOOLEAN, ScEnterFails(t, run, k, heard)
    PROVE  ScInv'
<1>1. ScTyped /\ StartsAreEnded
  BY DEF ScInv
<1>2. PICK n : n = <<t, Len(scOpen[t]) + 1>>
  OBVIOUS
<1>3. n \in Scopes
  <2>1. Depth(t) < ScMaxDepth
    BY DEF ScEnterFails, MayOpen, Depth
  <2>2. <<t, Depth(t) + 1>> \in Scopes
    BY <2>1, <1>1, Depths
  <2> QED BY <2>2, <1>2 DEF Depth
<1>4. scSpans' = scSpans
  <2>1. PICK q : q = scSpans[t]
    OBVIOUS
  <2>2. q \in Seq(Spans) /\ n \in Spans /\ scSpans \in [ScTasks -> Seq(Spans)]
    BY <2>1, <1>1, <1>3, ScopesAreSpans DEF ScInv, SpansInv
  <2>3. Front(Append(q, n)) = q
    BY <2>2, FrontOfAppend
  <2>4. scSpans' = [scSpans EXCEPT ![t] = q]
    BY <2>1, <2>3, <1>2 DEF ScEnterFails, Popped
  <2> QED BY <2>1, <2>2, <2>4
<1>5. UNCHANGED <<scOpen, scListeners, scActive, scRunning, scStreaming, scBroken>>
  BY DEF ScEnterFails, scStreamVars
<1>6. IdleInv' /\ SpansInv' /\ RegistryInv' /\ SilencedInv' /\ ActiveInv'
  BY <1>4, <1>5, Quiet, SpansSame
<1>7. \/ scOwed' = scOwed /\ scUnheard' = scUnheard
      \/ scOwed' = scOwed \cup ((1..k) \X {n}) /\ scUnheard' = scUnheard \cup {n}
  BY <1>2 DEF ScEnterFails, Announced
<1>8. ScTyped'
  <2>1. scOwed' \subseteq Processors \X Scopes /\ scUnheard' \subseteq Scopes
    <3>1. (1..k) \X {n} \subseteq Processors \X Scopes
      BY <1>3, ScAssumption DEF Processors
    <3> QED BY <3>1, <1>1, <1>3, <1>7 DEF ScTyped
  <2>2. scRaised' \in [ScTasks -> {"none", "new", "recorded"}]
    <3>1. PICK f \in {"none", "new", "recorded"} : scRaised' = [scRaised EXCEPT ![t] = f]
      BY DEF ScEnterFails
    <3> QED BY <3>1, <1>1 DEF ScTyped
  <2>3. \A u \in ScTasks : Depth(u)' <= ScMaxDepth
    BY <1>1, <1>5 DEF ScTyped, Depth
  <2> QED BY <2>1, <2>2, <2>3, <1>1, <1>4, <1>5 DEF ScTyped
<1>9. StartsAreEnded'
  <2>1. ASSUME NEW p \in Processors, NEW s \in Scopes \ scUnheard'
        PROVE  <<p, s>> \in scOwed' <=> s[2] <= Len(scOpen'[s[1]])
    <3>1. s \in Scopes \ scUnheard /\ (<<p, s>> \in scOwed' <=> <<p, s>> \in scOwed)
      BY <1>7
    <3>2. scOpen' = scOpen
      BY <1>5
    <3> QED BY <3>1, <3>2, <1>1 DEF StartsAreEnded
  <2> QED BY <2>1 DEF StartsAreEnded
<1> QED BY <1>6, <1>8, <1>9 DEF ScInv

\* An exception is raised or caught, a stream starts or ends, or nothing happens.
LEMMA RaisedInv ==
    ASSUME ScInv, scRaised' \in [ScTasks -> {"none", "new", "recorded"}],
           SpansInv',
           UNCHANGED <<scOpen, scListeners, scActive, scOwed, scRunning, scUnheard>>
    PROVE  ScInv'
<1>1. ScTyped /\ StartsAreEnded
  BY DEF ScInv
<1>2. IdleInv' /\ RegistryInv' /\ SilencedInv' /\ ActiveInv'
  BY Quiet
<1>3. \A u \in ScTasks : Depth(u)' <= ScMaxDepth
  BY <1>1 DEF ScTyped, Depth
<1>4. ScTyped'
  BY <1>1, <1>3 DEF ScTyped
<1>5. StartsAreEnded'
  BY <1>1 DEF StartsAreEnded
<1> QED BY <1>2, <1>4, <1>5 DEF ScInv

-----------------------------------------------------------------------------
(* Branches.                                                               *)

\* A task that has nothing open.
LEMMA NothingOpen ==
    ASSUME NEW b, scOpen[b] = <<>>
    PROVE  /\ Depth(b) = 0 /\ Runs(b) = {} /\ Opened(b) = <<>>
           /\ \A n : Latest(b, n) = {} /\ Owned(b, n) = {}
<1>1. Depth(b) = 0
  BY DEF Depth
<1>2. Runs(b) = {}
  BY <1>1 DEF Runs
<1>3. Opened(b) = <<>>
  BY DEF Opened
<1> QED BY <1>1, <1>2, <1>3 DEF Latest, Owned

\* What the scopes say of themselves does not depend on which branches run.
LEMMA ScopesKept ==
    ASSUME scOpen' = scOpen
    PROVE  /\ Outer' = Outer
           /\ \A u : /\ Depth(u)' = Depth(u) /\ Runs(u)' = Runs(u) /\ Opened(u)' = Opened(u)
                     /\ \A i : Silences(u, i)' = Silences(u, i)
                     /\ \A n : Latest(u, n)' = Latest(u, n) /\ Owned(u, n)' = Owned(u, n)
                     /\ Latest(u, Depth(u))' = Latest(u, Depth(u))
                     /\ Owned(u, Depth(u))' = Owned(u, Depth(u))
<1>1. \A u : /\ Depth(u)' = Depth(u) /\ Runs(u)' = Runs(u) /\ Opened(u)' = Opened(u)
             /\ \A i : Silences(u, i)' = Silences(u, i)
             /\ \A n : Latest(u, n)' = Latest(u, n) /\ Owned(u, n)' = Owned(u, n)
  BY OthersKept
<1>2. \A u : /\ Latest(u, Depth(u))' = Latest(u, Depth(u))
             /\ Owned(u, Depth(u))' = Owned(u, Depth(u))
  BY <1>1 DEF Latest, Owned
<1>3. Outer' = Outer
  BY OuterKept
<1> QED BY <1>1, <1>2, <1>3

\* A branch starts with the stack of the main task, with what is left on it.
LEMMA ForkSpans ==
    ASSUME ScInv, NEW branches \in SUBSET ScBranches, ScFork(branches)
    PROVE  SpansInv'
<1>1. ScTyped /\ IdleInv /\ SpansInv /\ ScMain \in ScTasks /\ ScMain \notin ScBranches
  BY ScAssumption DEF ScInv, ScTasks
<1>2. /\ scRunning = {} /\ scRunning' = branches /\ scOpen' = scOpen
      /\ scStreaming' = scStreaming /\ ScMain \notin scStreaming
      /\ scBroken' = IF ScMain \in scBroken THEN scBroken \cup branches ELSE scBroken
      /\ scSpans' = [t \in ScTasks |-> IF t \in branches THEN scSpans[ScMain]
                                        ELSE scSpans[t]]
  BY DEF ScFork, Executes
<1>3. \A u : Depth(u)' = Depth(u) /\ Opened(u)' = Opened(u) /\ Streamed(u)' = Streamed(u)
  BY <1>2, OthersKept DEF Streamed
<1>4. /\ scSpans' \in [ScTasks -> Seq(Spans)] /\ scStreaming' \subseteq ScTasks
      /\ scBroken' \subseteq ScTasks /\ \A t \in scStreaming' : Depth(t)' > 0
      /\ scBroken' \subseteq {ScMain} \cup scRunning'
  BY <1>1, <1>2, <1>3 DEF SpansInv, ScTasks
<1>5. ASSUME NEW t \in ScTasks, t \notin branches PROVE StackOf(t)'
  <2>1. StackOf(t) /\ Base(t) = <<>> /\ Base(t)' = <<>>
    BY <1>1, <1>2, <1>5 DEF SpansInv, Base
  <2>2. t \in scBroken' <=> t \in scBroken
    BY <1>2, <1>5
  <2> QED BY <2>1, <2>2, <1>2, <1>3, <1>5 DEF StackOf
<1>6. ASSUME NEW t \in branches PROVE StackOf(t)'
  <2>1. t \in ScTasks /\ scOpen[t] = <<>> /\ t # ScMain
    BY <1>1, <1>2 DEF IdleInv, ScTasks
  <2>2. Depth(t) = 0 /\ Opened(t) = <<>>
    BY <2>1, NothingOpen
  <2>3. t \notin scStreaming
    BY <2>2, <1>1 DEF SpansInv
  <2>4. PICK A : A = Base(ScMain)
    OBVIOUS
  <2>5. PICK O : O = Opened(ScMain)
    OBVIOUS
  <2>6. PICK S : S = scSpans[ScMain]
    OBVIOUS
  <2>7. A = <<>> /\ Base(t) = <<>> /\ Base(t)' = O
    BY <2>4, <2>5, <1>2, <1>3 DEF Base
  <2>80. /\ O \in Seq(Spans) /\ S \in Seq(Spans) /\ Len(O) = Depth(ScMain)
         /\ Depth(ScMain) \in Nat
         /\ ScMain \in scBroken => Len(S) >
               Len(A) + Depth(ScMain) + (IF ScMain \in scStreaming THEN 1 ELSE 0)
         /\ ScMain \notin scBroken /\ ScMain \notin scStreaming => S = A \o O
    BY <2>4, <2>5, <2>6, <1>1, StackBefore
  <2>8. /\ O \in Seq(Spans) /\ S \in Seq(Spans) /\ Len(O) = Depth(ScMain)
        /\ ScMain \in scBroken => Len(S) > Len(O)
        /\ ScMain \notin scBroken => S = A \o O
    BY <2>7, <2>80, <1>2
  <2>9. scSpans'[t] = S
    BY <2>1, <2>6, <1>2
  <2>10. CASE ScMain \in scBroken
    <3>1. Len(S) > Len(O)
      BY <2>8, <2>10
    <3>2. t \in scBroken' /\ Depth(t)' = 0 /\ t \notin scStreaming'
      BY <2>2, <2>3, <2>10, <1>2, <1>3
    <3> QED BY <3>1, <3>2, <2>7, <2>8, <2>9 DEF StackOf
  <2>11. CASE ScMain \notin scBroken
    <3>1. S = O
      BY <2>7, <2>8, <2>11
    <3>2. Opened(t)' = <<>> /\ Streamed(t)' = <<>> /\ t \notin scBroken
      <4>1. t \notin scRunning /\ Streamed(t) = <<>>
        BY <2>3, <1>2 DEF Streamed
      <4>2. t \notin scBroken
        BY <2>1, <4>1, <1>1 DEF SpansInv
      <4> QED BY <4>1, <4>2, <2>2, <1>3
    <3>3. O \o <<>> \o <<>> = O
      BY <2>8
    <3>4. t \notin scBroken'
      BY <3>2, <2>11, <1>2
    <3> QED BY <3>1, <3>2, <3>3, <3>4, <2>7, <2>9 DEF StackOf
  <2> QED BY <2>10, <2>11
<1> QED BY <1>4, <1>5, <1>6 DEF SpansInv

\* With a branch its stack goes.
LEMMA JoinSpans ==
    ASSUME ScInv, NEW b \in ScBranches, ScJoin(b)
    PROVE  SpansInv'
<1>1. ScTyped /\ SpansInv /\ b \in ScTasks /\ b # ScMain
  BY ScAssumption DEF ScInv, ScTasks
<1>2. /\ b \in scRunning /\ scOpen[b] = <<>> /\ scRunning' = scRunning \ {b}
      /\ scOpen' = scOpen /\ scStreaming' = scStreaming /\ scBroken' = scBroken \ {b}
      /\ scSpans' = [scSpans EXCEPT ![b] = <<>>]
  BY DEF ScJoin
<1>3. \A u : Depth(u)' = Depth(u) /\ Opened(u)' = Opened(u) /\ Streamed(u)' = Streamed(u)
  BY <1>2, OthersKept DEF Streamed
<1>4. /\ scSpans' \in [ScTasks -> Seq(Spans)] /\ scStreaming' \subseteq ScTasks
      /\ scBroken' \subseteq ScTasks /\ \A t \in scStreaming' : Depth(t)' > 0
      /\ scBroken' \subseteq {ScMain} \cup scRunning'
      /\ scSpans'[b] = <<>> /\ \A t \in ScTasks \ {b} : scSpans'[t] = scSpans[t]
  BY <1>1, <1>2, <1>3 DEF SpansInv
<1>5. Depth(b) = 0 /\ Opened(b) = <<>>
  BY <1>2, NothingOpen
<1>6. Streamed(b) = <<>>
  BY <1>1, <1>5 DEF SpansInv, Streamed
<1>7. StackOf(b)'
  <2>1. b \notin scBroken' /\ Base(b)' = <<>>
    BY <1>2 DEF Base
  <2>2. <<>> \o <<>> \o <<>> = <<>>
    OBVIOUS
  <2> QED BY <2>1, <2>2, <1>3, <1>4, <1>5, <1>6 DEF StackOf
<1>8. ASSUME NEW t \in ScTasks \ {b} PROVE StackOf(t)'
  <2>1. StackOf(t) /\ Base(t)' = Base(t)
    BY <1>1, <1>2, <1>3 DEF SpansInv, Base
  <2>2. (t \in scBroken' <=> t \in scBroken) /\ scStreaming' = scStreaming
    BY <1>2
  <2> QED BY <2>1, <2>2, <1>3, <1>4 DEF StackOf
<1> QED BY <1>4, <1>7, <1>8 DEF SpansInv

\* Branches start with what is around them, and nothing of their own.
LEMMA ForkInv ==
    ASSUME ScInv, NEW branches \in SUBSET ScBranches, ScFork(branches)
    PROVE  ScInv'
<1>1. /\ ScTyped /\ IdleInv /\ SpansInv /\ RegistryInv /\ SilencedInv /\ ActiveInv
      /\ StartsAreEnded /\ ScMain \in ScTasks /\ ScMain \notin ScBranches
  BY ScAssumption DEF ScInv, ScTasks
<1>2. /\ scRunning = {} /\ scRunning' = branches /\ branches # {}
      /\ scOpen' = scOpen /\ scActive' = scActive /\ scOwed' = scOwed
      /\ scRaised' = scRaised /\ scUnheard' = scUnheard
  BY DEF ScFork, Executes
<1>3. /\ scSpans' = [t \in ScTasks |-> IF t \in branches THEN scSpans[ScMain] ELSE scSpans[t]]
      /\ scListeners' = [t \in ScTasks |-> IF t \in branches THEN scListeners[ScMain]
                                          ELSE scListeners[t]]
  BY DEF ScFork
<1>4. /\ Outer' = Outer
      /\ \A u : /\ Depth(u)' = Depth(u) /\ Runs(u)' = Runs(u) /\ Opened(u)' = Opened(u)
                /\ \A i : Silences(u, i)' = Silences(u, i)
                /\ \A n : Latest(u, n)' = Latest(u, n) /\ Owned(u, n)' = Owned(u, n)
                /\ Latest(u, Depth(u))' = Latest(u, Depth(u))
                /\ Owned(u, Depth(u))' = Owned(u, Depth(u))
  BY <1>2, ScopesKept
<1>5. ASSUME NEW b \in ScBranches
      PROVE  /\ b \in ScTasks /\ scOpen[b] = <<>> /\ scListeners[b] = <<>>
             /\ Depth(b) = 0 /\ Runs(b) = {} /\ Opened(b) = <<>> /\ Latest(b, Depth(b)) = {}
  <2>1. b \in ScTasks /\ scOpen[b] = <<>> /\ scListeners[b] = <<>>
    BY <1>1, <1>2 DEF IdleInv, ScTasks
  <2> QED BY <2>1, NothingOpen
<1>6. scListeners' \in [ScTasks -> Seq(Scopes)]
  BY <1>1, <1>3 DEF ScTyped
<1>7. ScTyped'
  BY <1>1, <1>2, <1>4, <1>6 DEF ScTyped
<1>8. IdleInv'
  BY <1>1, <1>2, <1>3, <1>5 DEF IdleInv
<1>10. SpansInv'
  BY ForkSpans
<1>11. PICK L : L = scListeners[ScMain] /\ RegistryOf(ScMain, L)
  BY <1>1 DEF RegistryInv
<1>12. ASSUME NEW t \in {ScMain} \cup branches
       PROVE  RegistryOf(t, L)
  <2>1. \A k \in 1..Len(L) : \E u \in {ScMain, t} : \E i \in Runs(u) : L[k] = <<u, i>>
    BY <1>11 DEF RegistryOf
  <2>2. \A k \in 1..Len(L) : L[k][1] = ScMain
    BY <1>11 DEF RegistryOf
  <2>3. \A k, m \in 1..Len(L) : k < m => L[m][1] = L[k][1] /\ L[k][2] < L[m][2]
    BY <2>2, <1>11 DEF RegistryOf
  <2>4. \A j \in Runs(t) : \E k \in 1..Len(L) : L[k] = <<t, j>>
    <3>1. CASE t = ScMain
      BY <3>1, <1>11 DEF RegistryOf
    <3>2. CASE t \in branches
      BY <3>2, <1>5
    <3> QED BY <3>1, <3>2
  <2> QED BY <2>1, <2>3, <2>4 DEF RegistryOf
<1>13. ASSUME NEW t \in {ScMain} \cup branches
       PROVE  \E M \in {scListeners'[t]} : RegistryOf(t, M)'
  <2>1. L = scListeners'[t]
    BY <1>1, <1>3, <1>5, <1>11
  <2>2. \A u \in {ScMain, t} : Runs(u)' = Runs(u)
    BY <1>4
  <2>3. RegistryOf(t, L)'
    BY <2>2, <1>12 DEF RegistryOf
  <2> QED BY <2>1, <2>3
<1>14. RegistryInv'
  BY <1>2, <1>13 DEF RegistryInv
<1>15. SilencedInv'
  BY <1>1, <1>2, <1>4, <1>5 DEF SilencedInv
<1>16. ActiveInv'
  <2>1. scActive = Outer
    BY <1>1, <1>2 DEF ActiveInv
  <2> QED BY <2>1, <1>2, <1>4, <1>5 DEF ActiveInv
<1>17. StartsAreEnded'
  BY <1>1, <1>2 DEF StartsAreEnded
<1> QED BY <1>7, <1>8, <1>10, <1>14, <1>15, <1>16, <1>17 DEF ScInv

\* When the last branch has ended, the listener around the branches listens again.
LEMMA JoinInv ==
    ASSUME ScInv, NEW b \in ScBranches, ScJoin(b)
    PROVE  ScInv'
<1>1. /\ ScTyped /\ IdleInv /\ SpansInv /\ RegistryInv /\ SilencedInv /\ ActiveInv
      /\ StartsAreEnded /\ b \in ScTasks /\ b # ScMain
  BY ScAssumption DEF ScInv, ScTasks
<1>2. /\ b \in scRunning /\ scOpen[b] = <<>> /\ scRunning' = scRunning \ {b}
      /\ scOpen' = scOpen /\ scActive' = scActive /\ scOwed' = scOwed
      /\ scUnheard' = scUnheard
      /\ scListeners' = [scListeners EXCEPT ![b] = <<>>]
  BY DEF ScJoin
<1>3. /\ Outer' = Outer
      /\ \A u : /\ Depth(u)' = Depth(u) /\ Runs(u)' = Runs(u) /\ Opened(u)' = Opened(u)
                /\ \A i : Silences(u, i)' = Silences(u, i)
                /\ \A n : Latest(u, n)' = Latest(u, n) /\ Owned(u, n)' = Owned(u, n)
                /\ Latest(u, Depth(u))' = Latest(u, Depth(u))
                /\ Owned(u, Depth(u))' = Owned(u, Depth(u))
  BY <1>2, ScopesKept
<1>4. /\ Depth(b) = 0 /\ Runs(b) = {} /\ Opened(b) = <<>>
      /\ Latest(b, Depth(b)) = {} /\ Owned(b, Depth(b)) = {}
  BY <1>2, NothingOpen
<1>5. /\ scListeners' \in [ScTasks -> Seq(Scopes)] /\ scListeners'[b] = <<>>
      /\ \A u \in ScTasks \ {b} : scListeners'[u] = scListeners[u]
  BY <1>1, <1>2 DEF ScTyped
<1>6. ScTyped'
  <2>1. scRaised' \in [ScTasks -> {"none", "new", "recorded"}]
    <3>1. PICK f : f = [scRaised EXCEPT ![ScMain] = IF scRaised[b] = "none" THEN @ ELSE "new"]
      OBVIOUS
    <3>2. f \in [ScTasks -> {"none", "new", "recorded"}]
      BY <3>1, <1>1 DEF ScTyped
    <3>3. scRaised' = [f EXCEPT ![b] = "none"]
      BY <3>1 DEF ScJoin
    <3> QED BY <3>2, <3>3
  <2> QED BY <2>1, <1>1, <1>2, <1>3, <1>5 DEF ScTyped
<1>7. IdleInv'
  BY <1>1, <1>2, <1>5 DEF IdleInv, ScTasks
<1>8. SpansInv'
  BY JoinSpans
<1>9. RegistryInv'
  <2>1. ASSUME NEW t \in {ScMain} \cup scRunning'
        PROVE  \E L \in {scListeners'[t]} : RegistryOf(t, L)'
    <3>1. t \in ScTasks /\ t # b /\ t \in {ScMain} \cup scRunning
      BY <1>1, <1>2 DEF ScTyped, ScTasks
    <3>2. PICK L : L = scListeners[t] /\ RegistryOf(t, L)
      BY <3>1, <1>1 DEF RegistryInv
    <3>3. \A u \in {ScMain, t} : Runs(u)' = Runs(u)
      BY <1>3
    <3>4. RegistryOf(t, L)'
      BY <3>2, <3>3 DEF RegistryOf
    <3>5. L = scListeners'[t]
      BY <3>1, <3>2, <1>5
    <3> QED BY <3>4, <3>5
  <2> QED BY <2>1 DEF RegistryInv
<1>10. SilencedInv'
  BY <1>1, <1>2, <1>3 DEF SilencedInv
<1>11. ActiveInv'
  <2>1. ASSUME NEW l \in scActive
        PROVE  l \in Outer \/ \E a \in scRunning' : l \in Owned(a, Depth(a))
    <3>1. l \in Outer \/ \E a \in scRunning : l \in Owned(a, Depth(a))
      BY <1>1 DEF ActiveInv
    <3> QED BY <3>1, <1>2, <1>4
  <2>2. ASSUME NEW l \in Outer \ scActive
        PROVE  \E a \in scRunning' : \E i \in Runs(a) : l \in Silences(a, i)
    <3>1. \E a \in scRunning : \E i \in Runs(a) : l \in Silences(a, i)
      BY <1>1 DEF ActiveInv
    <3> QED BY <3>1, <1>2, <1>4
  <2>3. scRunning' = {} => scActive = Outer
    BY <2>1, <2>2, <1>1 DEF ActiveInv
  <2>4. \A a \in scRunning' : /\ Latest(a, Depth(a)) \subseteq scActive
                              /\ Depth(a) > 0 => 1 \in Runs(a)
    BY <1>1, <1>2 DEF ActiveInv
  <2>5. \A l \in Outer' \ scActive' :
           \E a \in scRunning' : \E i \in Runs(a)' : l \in Silences(a, i)'
    BY <2>2, <1>2, <1>3
  <2>6. scActive' \subseteq Outer' \cup UNION {Owned(a, Depth(a))' : a \in scRunning'}
    BY <2>1, <1>2, <1>3
  <2>7. \A a \in scRunning' : /\ Latest(a, Depth(a))' \subseteq scActive'
                              /\ Depth(a)' > 0 => 1 \in Runs(a)'
    BY <2>4, <1>2, <1>3
  <2>8. scRunning' = {} => scActive' = Outer'
    BY <2>3, <1>2, <1>3
  <2> QED BY <2>5, <2>6, <2>7, <2>8 DEF ActiveInv
<1>12. StartsAreEnded'
  BY <1>1, <1>2 DEF StartsAreEnded
<1> QED BY <1>6, <1>7, <1>8, <1>9, <1>10, <1>11, <1>12 DEF ScInv

-----------------------------------------------------------------------------
(* The invariant of the specification, and what it says.                   *)

LEMMA ScStart == ScInit => ScInv
<1> SUFFICES ASSUME ScInit PROVE ScInv
  OBVIOUS
<1>1. /\ \A t \in ScTasks : scOpen[t] = <<>> /\ scSpans[t] = <<>> /\ scListeners[t] = <<>>
      /\ scActive = {} /\ scOwed = {} /\ scRunning = {} /\ ScMain \in ScTasks
  BY DEF ScInit, ScTasks
<1>2. ASSUME NEW t \in ScTasks
      PROVE  /\ Depth(t) = 0 /\ Runs(t) = {} /\ Opened(t) = <<>>
             /\ \A n : Latest(t, n) = {} /\ Owned(t, n) = {}
  BY <1>1, NothingOpen
<1>3. ScTyped
  <2>1. \A t \in ScTasks : Depth(t) <= ScMaxDepth
    BY <1>2, ScAssumption
  <2>2. /\ scOpen \in [ScTasks -> Seq(Scope)]
        /\ scListeners \in [ScTasks -> Seq(Scopes)]
    BY DEF ScInit
  <2> QED BY <2>1, <2>2 DEF ScInit, ScTyped
<1>40. IdleInv
  BY <1>1 DEF IdleInv, ScTasks
<1>4. SpansInv
  <2>1. scSpans \in [ScTasks -> Seq(Spans)] /\ scStreaming = {} /\ scBroken = {}
    BY DEF ScInit
  <2>2. <<>> \o <<>> \o <<>> = <<>>
    OBVIOUS
  <2>3. ASSUME NEW t \in ScTasks PROVE StackOf(t)
    BY <2>1, <2>2, <1>1, <1>2 DEF StackOf, Base, Streamed
  <2> QED BY <2>1, <2>3 DEF SpansInv
<1>5. RegistryInv
  BY <1>1, <1>2 DEF RegistryInv, RegistryOf
<1>6. SilencedInv
  BY <1>1, <1>2 DEF SilencedInv
<1>7. ActiveInv
  BY <1>1, <1>2 DEF ActiveInv, Outer
<1>8. StartsAreEnded
  <2>1. ASSUME NEW p \in Processors, NEW s \in Scopes
        PROVE  <<p, s>> \in scOwed <=> s[2] <= Len(scOpen[s[1]])
    <3>1. s[1] \in ScTasks /\ s[2] \in Nat /\ s[2] > 0
      BY ScAssumption DEF Scopes
    <3>2. Len(scOpen[s[1]]) = 0
      BY <3>1, <1>1
    <3> QED BY <3>1, <3>2, <1>1
  <2> QED BY <2>1 DEF StartsAreEnded
<1> QED BY <1>3, <1>4, <1>40, <1>5, <1>6, <1>7, <1>8 DEF ScInv

LEMMA ScStep == ScInv /\ [ScNext]_scVars => ScInv'
<1> SUFFICES ASSUME ScInv, [ScNext]_scVars PROVE ScInv'
  OBVIOUS
<1>0. ScTyped
  BY DEF ScInv
<1>1. ASSUME NEW t \in ScTasks, NEW run \in BOOLEAN, ScEnter(t, run) PROVE ScInv'
  <2>1. ScTyped' /\ SpansInv' /\ IdleInv' /\ RegistryInv'
    BY <1>1, EnterRegistry, SpansEnter
  <2>2. SilencedInv' /\ ActiveInv'
    <3>1. Executes(t)
      BY <1>1 DEF ScEnter, MayOpen
    <3>2. CASE t = ScMain
      BY <3>2, <1>1, EnterMain
    <3>3. CASE t # ScMain
      <4>1. t \in scRunning
        BY <3>1, <3>3, <1>0, Executing
      <4> QED BY <4>1, <3>3, <1>1, EnterBranch
    <3> QED BY <3>2, <3>3
  <2>3. StartsAreEnded'
    BY <1>1, StartsEnter
  <2> QED BY <2>1, <2>2, <2>3 DEF ScInv
<1>2. ASSUME NEW t \in ScTasks, NEW run \in BOOLEAN, NEW k \in 0..ScProcessors,
             NEW heard \in BOOLEAN, ScEnterFails(t, run, k, heard)
      PROVE  ScInv'
  BY <1>2, EnterFailsInv
<1>3. ASSUME NEW t \in ScTasks, NEW heard \in BOOLEAN, Leaves(t, heard), SpansInv'
      PROVE  ScInv'
  <2>1. ScTyped' /\ IdleInv' /\ RegistryInv'
    BY <1>3, ExitRegistry
  <2>2. SilencedInv' /\ ActiveInv'
    <3>1. Executes(t)
      BY <1>3 DEF Leaves
    <3>2. CASE t = ScMain
      BY <3>2, <1>3, ExitMain
    <3>3. CASE t # ScMain
      <4>1. t \in scRunning
        BY <3>1, <3>3, <1>0, Executing
      <4> QED BY <4>1, <3>3, <1>3, ExitBranch
    <3> QED BY <3>2, <3>3
  <2>3. StartsAreEnded'
    BY <1>3, StartsExit
  <2> QED BY <2>1, <2>2, <2>3, <1>3 DEF ScInv
<1>30. ASSUME NEW t \in ScTasks, NEW heard \in BOOLEAN, ScExit(t, heard) PROVE ScInv'
  BY <1>3, <1>30, ExitLeaves, SpansExit
<1>31. ASSUME NEW t \in ScTasks, ScAbandon(t) PROVE ScInv'
  BY <1>3, <1>31, AbandonLeaves, SpansAbandon
<1>4. ASSUME NEW t \in ScTasks,
             ScFail(t) \/ ScCatch(t) \/ ScStreamStart(t) \/ ScStreamEnd(t)
      PROVE  ScInv'
  <2>1. scRaised' \in [ScTasks -> {"none", "new", "recorded"}]
    BY <1>0, <1>4 DEF ScFail, ScCatch, ScStreamStart, ScStreamEnd, ScTyped
  <2>2. UNCHANGED <<scOpen, scListeners, scActive, scOwed, scRunning, scUnheard>>
    BY <1>4 DEF ScFail, ScCatch, ScStreamStart, ScStreamEnd
  <2>3. SpansInv'
    <3>1. CASE ScCatch(t)
      BY <3>1, SpansSame DEF ScCatch, scStreamVars
    <3> QED BY <3>1, <1>4, SpansStream
  <2> QED BY <2>1, <2>2, <2>3, RaisedInv
<1>5. ASSUME NEW branches \in SUBSET ScBranches, ScFork(branches) PROVE ScInv'
  BY <1>5, ForkInv
<1>6. ASSUME NEW b \in ScBranches, ScJoin(b) PROVE ScInv'
  BY <1>6, JoinInv
<1>7. CASE UNCHANGED scVars
  <2>1. scRaised' \in [ScTasks -> {"none", "new", "recorded"}]
    BY <1>0, <1>7 DEF scVars, ScTyped
  <2>2. SpansInv'
    BY <1>7, SpansSame DEF scVars, scStreamVars
  <2> QED BY <2>1, <2>2, <1>7, RaisedInv DEF scVars
<1> QED BY <1>1, <1>2, <1>30, <1>31, <1>4, <1>5, <1>6, <1>7 DEF ScNext

\* What listens follows from the scopes that are open.
LEMMA ScListen == ScInv => ListenersFollow
<1> SUFFICES ASSUME ScInv PROVE ListenersFollow
  OBVIOUS
<1>1. ScTyped /\ IdleInv /\ RegistryInv /\ ActiveInv
  BY DEF ScInv
<1>2. scListeners[ScMain] = <<>> => Runs(ScMain) = {}
  BY <1>1, LastOwn
<1>3. Runs(ScMain) = {} => Outer = {} /\ scListeners[ScMain] = <<>>
  BY <1>1, NothingRuns
<1>4. scListeners[ScMain] # <<>> => Outer = {Last(scListeners[ScMain])}
  BY <1>1, <1>3, LastIsLatest DEF Outer
<1>5. scRunning = {} => scActive = Outer
  BY <1>1 DEF ActiveInv
<1>6. scRunning = {} => scActive = IF scListeners[ScMain] = <<>> THEN {}
                                   ELSE {Last(scListeners[ScMain])}
  BY <1>2, <1>3, <1>4, <1>5
<1>7. ASSUME NEW t \in ScTasks, Executes(t), scOpen[t] # <<>>, scListeners[t] # <<>>
      PROVE  Last(scListeners[t]) \in scActive
  <2>1. CASE t = ScMain /\ scRunning = {}
    BY <2>1, <1>6, <1>7
  <2>2. CASE t \in scRunning
    <3>1. Depth(t) \in Nat /\ Depth(t) > 0
      <4>1. PICK q : q = scOpen[t]
        OBVIOUS
      <4>2. q \in Seq(Scope) /\ q # <<>>
        BY <4>1, <1>1, <1>7 DEF ScTyped
      <4> QED BY <4>1, <4>2 DEF Depth
    <3>2. 1 \in Runs(t) /\ Latest(t, Depth(t)) \subseteq scActive
      BY <2>2, <3>1, <1>1 DEF ActiveInv
    <3>3. Latest(t, Depth(t)) = {Last(scListeners[t])}
      BY <2>2, <3>2, <1>1, LastIsLatest
    <3> QED BY <3>2, <3>3
  <2> QED BY <2>1, <2>2, <1>1, <1>7, Executing
<1> QED BY <1>6, <1>7 DEF ListenersFollow

\* Types: what each task has open, its stack of spans and its registry of
\* listeners.
THEOREM ScTypeCorrect == ScSpec => []ScTypeOK
<1>1. ScInv => ScTypeOK
  BY DEF ScInv, ScTyped, SpansInv, ScTypeOK
<1> QED BY <1>1, ScStart, ScStep, PTL DEF ScSpec

\* Whoever leaves a scope finds its own span and listener as they were and has
\* told the processors, but for the stack after a stream that broke, which is
\* longer, a span whose end could not be told or that was abandoned, and the
\* silence of the listeners outside while branches run: for any number of
\* branches, span processors and nested scopes.
THEOREM ScopesUnwind == ScSpec => []ScopesAreLeft
<1>1. ScInv => SpansFollow
  <2> SUFFICES ASSUME ScInv PROVE SpansFollow
    OBVIOUS
  <2>1. ScTyped /\ SpansInv
    BY DEF ScInv
  <2>2. ASSUME NEW t \in ScTasks, Executes(t)
        PROVE  IF t \in scBroken
               THEN Len(scSpans[t]) > Len(Within(t)) + Len(scOpen[t]) + Len(Streamed(t))
               ELSE scSpans[t] = Within(t) \o Opened(t) \o Streamed(t)
    <3>1. (t = ScMain /\ t \notin scRunning) \/ (t \in scRunning /\ t # ScMain)
      BY <2>1, <2>2, Executing
    <3>2. Base(t) = Within(t) /\ StackOf(t)
      BY <3>1, <2>1 DEF Base, Within, SpansInv
    <3>3. Len(Streamed(t)) = IF t \in scStreaming THEN 1 ELSE 0
      BY DEF Streamed
    <3> QED BY <3>2, <3>3 DEF StackOf, Depth
  <2> QED BY <2>2 DEF SpansFollow
<1>2. ScInv => ScopesAreLeft
  BY <1>1, ScListen DEF ScInv, ScopesAreLeft
<1> QED BY <1>2, ScStart, ScStep, PTL DEF ScSpec
===============================================================================

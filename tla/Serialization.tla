---------------------------- MODULE Serialization ----------------------------
(***************************************************************************)
(* How a graph of objects becomes one dictionary and is built again.  An   *)
(* object of a class that can be referenced is written once, among the     *)
(* referenced objects of the root, and every place it is used holds a      *)
(* reference; the others are written where they are used.                  *)
(*                                                                         *)
(* What an object is made of, and the types that are expected where it is  *)
(* used, are left out: an object is its class, its id and the objects it   *)
(* uses, in the order in which they are written.  The recursive calls are  *)
(* a stack; a dictionary inside of another one is known by its place among *)
(* the finished ones, and so is an object that is built.                   *)
(***************************************************************************)
EXTENDS Naturals, Sequences, SequencesExt

CONSTANTS
    SzObjects,  \* objects
    SzRoot,     \* the object that is serialized
    SzMaxUses   \* bound: objects that an object uses

ASSUME SzAssumption == SzRoot \in SzObjects /\ SzMaxUses \in Nat

VARIABLES
    szUses,      \* the objects each object uses
    szRefs,      \* the objects that can be referenced
    szPc,        \* what became of the root, or is being done with it
    szCalls,     \* the calls in progress, the outermost first
    szStarted,   \* the references a context has started with
    szDicts,     \* the dictionaries, in the order they are finished
    szRecorded,  \* the dictionary of each object that has a reference, or 0
    szBuilt,     \* the objects built again, in the order they are finished
    szDone       \* what was built from each reference, or 0

szGraph == <<szUses, szRefs>>
szDocument == <<szDicts, szRecorded>>
szObjects == <<szBuilt, szDone>>
szVars == <<szGraph, szPc, szCalls, szStarted, szDocument, szObjects>>

\* What an object contains by way of objects of a set: the least set with what
\* the object uses and what its own members use.
Contents(o, within) ==
    {p \in within :
        \A S \in SUBSET within :
            (\A q \in S \cup {o} : ToSet(szUses[q]) \cap within \subseteq S) => p \in S}

\* An object without references that contains itself overflows the stack: such
\* graphs are left out.
SzInit ==
    /\ szUses \in [SzObjects -> BoundedSeq(SzObjects, SzMaxUses)]
    /\ szRefs \in SUBSET SzObjects
    /\ LET inline == SzObjects \ szRefs IN \A o \in inline : o \notin Contents(o, inline)
    /\ szPc = "new" /\ szCalls = <<>> /\ szStarted = {}
    /\ szDicts = <<>> /\ szRecorded = [o \in SzObjects |-> 0]
    /\ szBuilt = <<>> /\ szDone = [o \in SzObjects |-> 0]

SzTop == szCalls[Len(szCalls)]

\* The innermost call goes on to the next field.
SzContinue(use) == szCalls' = [szCalls EXCEPT ![Len(szCalls)].uses = Append(@, use)]

\* It returns: to the call around it, or to the caller, who then has what he
\* asked for.
SzReturn(use, finished) ==
    LET n == Len(szCalls) - 1 IN
    IF n = 0
    THEN szCalls' = <<>> /\ szPc' = finished
    ELSE /\ szCalls' = [i \in 1..n |->
               IF i = n THEN [szCalls[i] EXCEPT !.uses = Append(@, use)] ELSE szCalls[i]]
         /\ UNCHANGED szPc

\* It raises, through all calls around it.
SzRaise(refusal) == szPc' = refusal /\ szCalls' = <<>>

-----------------------------------------------------------------------------
(* Serialization.  A field holds a reference, or a dictionary.             *)

Reference(o) == [of |-> o, at |-> 0]
InPlace(o, i) == [of |-> o, at |-> i]

SerializeCall(o) == [of |-> o, uses |-> <<>>]

\* serialize, for an object that no context has seen.
SzSerialize ==
    /\ szPc = "new" /\ szPc' = "writing"
    /\ szCalls' = <<SerializeCall(SzRoot)>>
    /\ szStarted' = {SzRoot} \cap szRefs
    /\ UNCHANGED <<szGraph, szDocument, szObjects>>

\* serialize_to_dict for the next object in the fields of the current one:
\* check_obj_is_already_serialized, then start_serialization.
SzWrites ==
    /\ szPc = "writing" /\ Len(SzTop.uses) < Len(szUses[SzTop.of])
    /\ \E o \in {szUses[SzTop.of][Len(SzTop.uses) + 1]} :
          \/ /\ szRecorded[o] # 0
             /\ SzContinue(Reference(o)) /\ UNCHANGED <<szPc, szStarted>>
          \/ /\ szRecorded[o] = 0 /\ o \in szRefs \cap szStarted
             /\ SzRaise("refused") /\ UNCHANGED szStarted
          \/ /\ szRecorded[o] = 0 /\ o \notin szRefs \cap szStarted
             /\ szCalls' = Append(szCalls, SerializeCall(o))
             /\ szStarted' = szStarted \cup ({o} \cap szRefs)
             /\ UNCHANGED szPc
    /\ UNCHANGED <<szGraph, szDocument, szObjects>>

\* All fields are written: the dictionary is returned as it is, or recorded.
SzWritten ==
    /\ szPc = "writing" /\ Len(SzTop.uses) = Len(szUses[SzTop.of])
    /\ szDicts' = Append(szDicts, [of |-> SzTop.of, uses |-> SzTop.uses])
    /\ \/ /\ SzTop.of = SzRoot \/ SzTop.of \notin szRefs
          /\ SzReturn(InPlace(SzTop.of, Len(szDicts) + 1), "written")
          /\ UNCHANGED szRecorded
       \/ /\ SzTop.of # SzRoot /\ SzTop.of \in szRefs
          /\ SzReturn(Reference(SzTop.of), "written")
          /\ szRecorded' = [szRecorded EXCEPT ![SzTop.of] = Len(szDicts) + 1]
    /\ UNCHANGED <<szGraph, szStarted, szObjects>>

-----------------------------------------------------------------------------
(* Deserialization.                                                        *)

SzOrigins == {"place", "reference"}

DeserializeCall(i, from) == [dict |-> i, from |-> from, uses |-> <<>>]

\* Mutant: what was built from a reference is not recorded.
RecordBug(o, i) == szDone

\* recorddeserialized_object.
Record(o, i) == [szDone EXCEPT ![o] = i]

\* deserialize, from the dictionary of the root, which was finished last.
SzDeserialize ==
    /\ szPc = "written" /\ szPc' = "reading"
    /\ szCalls' = <<DeserializeCall(Len(szDicts), "place")>>
    /\ szStarted' = {}
    /\ UNCHANGED <<szGraph, szDocument, szObjects>>

\* autodeserialize_from_dict for the next field.  What a reference stands for is
\* built where it is met first (start_deserialization, get_referenced_dict);
\* references that lead back to themselves and missing ones are refused.
SzReads ==
    /\ szPc = "reading" /\ Len(SzTop.uses) < Len(szDicts[SzTop.dict].uses)
    /\ \E use \in {szDicts[SzTop.dict].uses[Len(SzTop.uses) + 1]} :
          \/ /\ use.at # 0
             /\ szCalls' = Append(szCalls, DeserializeCall(use.at, "place"))
             /\ UNCHANGED <<szPc, szStarted>>
          \/ /\ use.at = 0 /\ szDone[use.of] # 0
             /\ SzContinue(szDone[use.of]) /\ UNCHANGED <<szPc, szStarted>>
          \/ /\ use.at = 0 /\ szDone[use.of] = 0
             /\ szStarted' = szStarted \cup {use.of}
             /\ IF use.of \in szStarted \/ szRecorded[use.of] = 0
                THEN SzRaise("failed")
                ELSE /\ szCalls' = Append(szCalls,
                                          DeserializeCall(szRecorded[use.of], "reference"))
                     /\ UNCHANGED szPc
    /\ UNCHANGED <<szGraph, szDocument, szObjects>>

\* The plugin has built the fields, and builds the object.
SzBuilds ==
    /\ szPc = "reading" /\ Len(SzTop.uses) = Len(szDicts[SzTop.dict].uses)
    /\ \E o \in {szDicts[SzTop.dict].of} :
          /\ szBuilt' = Append(szBuilt, [of |-> o, uses |-> SzTop.uses])
          /\ szDone' = IF SzTop.from = "reference" THEN Record(o, Len(szBuilt) + 1) ELSE szDone
    /\ SzReturn(Len(szBuilt) + 1, "read")
    /\ UNCHANGED <<szGraph, szStarted, szDocument>>

SzNext ==
    \/ SzSerialize \/ SzWrites \/ SzWritten
    \/ SzDeserialize \/ SzReads \/ SzBuilds

SzSpec == SzInit /\ [][SzNext]_szVars

-----------------------------------------------------------------------------
(* Properties.                                                             *)

SzPlace == [of : SzObjects, at : Nat]

SzTypeOK ==
    /\ szUses \in [SzObjects -> Seq(SzObjects)] /\ szRefs \subseteq SzObjects
    /\ szPc \in {"new", "writing", "refused", "written", "reading", "failed", "read"}
    /\ szCalls \in IF szPc = "writing" THEN Seq([of : SzObjects, uses : Seq(SzPlace)])
                   ELSE Seq([dict : Nat, from : SzOrigins, uses : Seq(Nat)])
    /\ szStarted \subseteq SzObjects
    /\ szDicts \in Seq([of : SzObjects, uses : Seq(SzPlace)])
    /\ szRecorded \in [SzObjects -> Nat] /\ szDone \in [SzObjects -> Nat]
    /\ szBuilt \in Seq([of : SzObjects, uses : Seq(Nat)])

\* The reference definition of what must be refused: an object that is used and
\* contains itself.
Cyclic == \E o \in Contents(SzRoot, SzObjects) \cup {SzRoot} : o \in Contents(o, SzObjects)

BuiltAs(o) == {i \in DOMAIN szBuilt : szBuilt[i].of = o}

\* An object is refused exactly if it contains one that contains itself, and what
\* was written can be read.  What is built from it has the shape of what was
\* serialized: every object uses what the original did, in its order, and an
\* object that can be referenced is built once, however often it is used.
RoundTrip ==
    /\ szPc = "refused" => Cyclic
    /\ szPc \in {"written", "reading", "read"} => ~Cyclic
    /\ szPc # "failed"
    /\ szPc = "read" =>
          /\ szBuilt # <<>> /\ szBuilt[Len(szBuilt)].of = SzRoot
          /\ \A i \in DOMAIN szBuilt :
                LET b == szBuilt[i] IN
                [k \in DOMAIN b.uses |-> szBuilt[b.uses[k]].of] = szUses[b.of]
          /\ \A o \in szRefs \cap Contents(SzRoot, SzObjects) :
                \E i \in DOMAIN szBuilt : BuiltAs(o) = {i}
=============================================================================

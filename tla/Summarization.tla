---------------------------- MODULE Summarization ----------------------------
(***************************************************************************)
(* ConversationSummarizationTransform: when the messages of a conversation *)
(* are too many, the prompt gets a summary of the older ones and the       *)
(* recent ones as they are.  Summaries are kept in a cache that all        *)
(* conversations share, whose rows expire and are removed when there are   *)
(* too many.  The transform waits for the model that writes a summary;     *)
(* other conversations use the cache meanwhile.                            *)
(*                                                                         *)
(* A summary is the set of the messages its text tells of.                 *)
(***************************************************************************)
EXTENDS Naturals, Sequences, SequencesExt, FiniteSetsExt

CONSTANTS
    SumConvs,       \* conversations
    SumMin,         \* min_num_messages
    SumMax,         \* max_num_messages
    SumCacheSize,   \* max_cache_size
    SumMaxMessages  \* bound: messages of a conversation

\* The constructor allows min_num_messages = 0, which is not modelled.
ASSUME SumAssumption ==
    /\ SumMin \in Nat \ {0} /\ SumMax \in Nat /\ SumMin <= SumMax
    /\ SumCacheSize \in Nat \ {0} /\ SumMaxMessages \in Nat

SumMessage == {"plain", "request", "result"}
SumIds == 1..SumMaxMessages
NotAsked == [n |-> 0, prefix |-> 0, covers |-> {}]
SumCall == [n : 0..SumMaxMessages, prefix : 0..SumMaxMessages, covers : SUBSET SumIds]
Row == [conv : SumConvs, prefix : 0..SumMaxMessages, covers : SUBSET SumIds]

VARIABLES
    sumList,    \* the messages of each conversation
    sumRows,    \* the collection of the cache, in the order of created_at
    sumUsed,    \* the conversations with rows, in the order of last_used_at
    sumCall,    \* the calls that wait for the model
    sumPrompt   \* what the last call returned, and the conversation

sumVars == <<sumList, sumRows, sumUsed, sumCall, sumPrompt>>

NoSumPrompt == <<>>

SumInit ==
    /\ sumList = [c \in SumConvs |-> <<>>] /\ sumRows = <<>> /\ sumUsed = <<>>
    /\ sumCall = [c \in SumConvs |-> NotAsked] /\ sumPrompt = NoSumPrompt

-----------------------------------------------------------------------------
(* The cache.                                                              *)

\* The elements of a sequence that are in a set, in their order.  SelectSeq by
\* another name: a recursive function can be proved about.
Among(s, S) ==
    LET among[i \in 0..Len(s)] ==
            IF i = 0 THEN <<>>
            ELSE IF s[i] \in S THEN Append(among[i - 1], s[i]) ELSE among[i - 1]
    IN among[Len(s)]

RowsOf(rows, c) == Among(rows, {r \in ToSet(rows) : r.conv = c})

\* Rows expire in the order in which they were created; when is up to the clock.
Unexpired(rows, e) == SubSeq(rows, e + 1, Len(rows))

\* A conversation without rows has no last use.
InUse(used, rows) == Among(used, {r.conv : r \in ToSet(rows)})

\* _MessageCache.retrieve: the oldest row of the conversation, which counts as
\* its last use.
Retrieve(c, e) ==
    LET used == InUse(sumUsed, Unexpired(sumRows, e)) IN
    /\ sumRows' = Unexpired(sumRows, e)
    /\ sumUsed' = Among(used, SumConvs \ {c}) \o Among(used, {c})

\* _remove_lru deletes by the key: every row of that conversation.
WithoutLru(rows) ==
    IF Len(rows) > SumCacheSize
    THEN Among(rows, {r \in ToSet(rows) : r.conv # Head(sumUsed)}) ELSE rows

\* _MessageCache.store; a new row does not replace those of its conversation.  The
\* size is looked at before the row is added: max_cache_size + 1 rows may stay.
StoreRow(row, e) ==
    LET kept == WithoutLru(sumRows) IN
    /\ e \in 0..Len(kept)
    /\ sumRows' = Append(Unexpired(kept, e), row)
    /\ LET used == InUse(sumUsed, Unexpired(kept, e)) IN
       sumUsed' = IF row.conv \in ToSet(used) THEN used ELSE Append(used, row.conv)

-----------------------------------------------------------------------------
(* The transform.                                                          *)

TooMany(n) == n > SumMax

\* current_messages: the cached summary, if there is one, and the messages that
\* it does not cover.
CurrentLength(n, cached) ==
    IF cached = <<>> THEN n ELSE 1 + (n - Head(cached).prefix)

CachedPrefix(cached) == IF cached = <<>> THEN 0 ELSE Head(cached).prefix
CachedCovers(cached) == IF cached = <<>> THEN {} ELSE Head(cached).covers

RequestOf(list, i) == Max({j \in 1..(i - 1) : list[j] = "request"})

\* Mutant: a tool result may be kept without its request.
FirstKeptBug(list, prefix) == Len(list) - SumMin + 1

\* _split_messages_and_guarantee_tool_calling_consistency: the recent messages,
\* and from the first request on that a result among them needs.
FirstKept(list, prefix) ==
    LET first == Len(list) - SumMin + 1
        needed == {RequestOf(list, i) :
                      i \in {j \in first..Len(list) : list[j] = "result"}}
        missing == needed \cap ((prefix + 1)..(first - 1))
    IN IF missing = {} THEN first ELSE Min(missing)

\* The agent adds a message, or a request message and all of its results, and
\* calls the transform for its next prompt.  Request messages that follow each other
\* before their results, which a caller may append, are not modelled: the code
\* looks for missing requests once, and may then keep a result without its own.
SumWrites(c, turn) ==
    /\ sumCall[c] = NotAsked /\ Len(sumList[c]) + Len(turn) <= SumMaxMessages
    /\ sumList' = [sumList EXCEPT ![c] = @ \o turn]
    /\ sumPrompt' = NoSumPrompt
    /\ UNCHANGED <<sumRows, sumUsed, sumCall>>

Prompt(c, covers, first) ==
    sumPrompt' = <<[conv |-> c, covers |-> covers, kept |-> first..Len(sumList[c])]>>

SumShort(c) ==
    /\ sumCall[c] = NotAsked /\ sumList[c] # <<>> /\ ~TooMany(Len(sumList[c]))
    /\ Prompt(c, {}, 1)
    /\ UNCHANGED <<sumList, sumRows, sumUsed, sumCall>>

\* The cached summary and the later messages are few enough.
SumCached(c, e) ==
    LET n == Len(sumList[c])
        cached == RowsOf(Unexpired(sumRows, e), c)
    IN
    /\ sumCall[c] = NotAsked /\ TooMany(n) /\ ~TooMany(CurrentLength(n, cached))
    /\ Retrieve(c, e)
    /\ Prompt(c, CachedCovers(cached), CachedPrefix(cached) + 1)
    /\ UNCHANGED <<sumList, sumCall>>

\* The model is asked for a summary of the cached one and what is not kept.
SumAsks(c, e) ==
    LET n == Len(sumList[c])
        cached == RowsOf(Unexpired(sumRows, e), c)
        prefix == CachedPrefix(cached)
        first == FirstKept(sumList[c], prefix)
    IN
    /\ sumCall[c] = NotAsked /\ TooMany(n) /\ TooMany(CurrentLength(n, cached))
    /\ Retrieve(c, e)
    /\ sumCall' = [sumCall EXCEPT ![c] =
                      [n |-> n, prefix |-> first - 1,
                       covers |-> CachedCovers(cached) \cup ((prefix + 1)..(first - 1))]]
    /\ sumPrompt' = NoSumPrompt
    /\ UNCHANGED sumList

\* The summary arrives and is stored with the number of messages it covers.
SumStores(c, e) ==
    LET call == sumCall[c] IN
    /\ call # NotAsked
    /\ StoreRow([conv |-> c, prefix |-> call.prefix, covers |-> call.covers], e)
    /\ Prompt(c, call.covers, call.prefix + 1)
    /\ sumCall' = [sumCall EXCEPT ![c] = NotAsked]
    /\ UNCHANGED sumList

\* The model raises, and with it the transform.
SumFails(c) ==
    /\ sumCall[c] # NotAsked
    /\ sumCall' = [sumCall EXCEPT ![c] = NotAsked] /\ sumPrompt' = NoSumPrompt
    /\ UNCHANGED <<sumList, sumRows, sumUsed>>

Turns == {<<"plain">>, <<"request", "result">>, <<"request", "result", "result">>}

SumNext ==
    \E c \in SumConvs :
        \/ \E turn \in Turns : SumWrites(c, turn)
        \/ SumShort(c) \/ SumFails(c)
        \/ \E e \in 0..Len(sumRows) :
              SumCached(c, e) \/ SumAsks(c, e) \/ SumStores(c, e)

SumSpec == SumInit /\ [][SumNext]_sumVars

-----------------------------------------------------------------------------
(* Properties.                                                             *)

SumTypeOK ==
    /\ sumList \in [SumConvs -> Seq(SumMessage)]
    /\ sumRows \in Seq(Row) /\ sumUsed \in Seq(SumConvs)
    /\ ToSet(sumUsed) = {r.conv : r \in ToSet(sumRows)}
    /\ sumCall \in [SumConvs -> SumCall]
    /\ sumPrompt \in Seq([conv : SumConvs, covers : SUBSET SumIds, kept : SUBSET SumIds])

\* Whatever rows have expired, were removed for other conversations or were
\* stored twice: every message is in the prompt, either as it is or in the
\* summary and never in both; a tool result comes with its request; and the
\* min_num_messages latest messages are there as they are (the docstring of the
\* split, and call_async).
PromptIsWhole ==
    \A p \in ToSet(sumPrompt) :
        LET list == sumList[p.conv] IN
        /\ p.covers \cap p.kept = {} /\ p.covers \cup p.kept = DOMAIN list
        /\ \A i \in p.kept : list[i] = "result" => RequestOf(list, i) \in p.kept
        /\ \A i \in DOMAIN list : i + SumMin > Len(list) => i \in p.kept
=============================================================================

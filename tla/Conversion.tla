----------------------------- MODULE Conversion -----------------------------
(***************************************************************************)
(* core/anthropic/conversion.py: an Anthropic conversation rewritten as an *)
(* OpenAI one.  An OpenAI assistant message cannot say anything after its  *)
(* tool calls, so what an Anthropic message says after the first tool_use  *)
(* is deferred until the results of its calls have been replayed           *)
(* (_PendingAfterTools).  One step converts one message of the list.       *)
(*                                                                         *)
(* A block is [kind, n]: n tells blocks apart, and a tool_result carries   *)
(* the n of the call it answers.  The conversations are those a client may *)
(* send: call ids are unique, a result answers a call of the latest        *)
(* assistant message, once, with no plain string in between.               *)
(***************************************************************************)
EXTENDS Integers, Sequences, SequencesExt, Queues

CONSTANTS
    TurnMax,  \* messages of a conversation
    BlockMax  \* blocks of a conversation

ASSUME ConversionAssumption == {TurnMax, BlockMax} \subseteq Nat

VARIABLES
    reasoning_replay, \* "disabled", "think_tags" or "reasoning_content"
    result,           \* the OpenAI messages built so far
    pending,          \* the deferred blocks and the calls they wait for
    refused,          \* an OpenAIConversionError was raised
    turns,            \* messages converted
    blocks,           \* blocks the client has sent
    answerable        \* calls of the latest assistant message without a result

conversionVars ==
    <<reasoning_replay, result, pending, refused, turns, blocks, answerable>>

NoPending == [ids |-> {}, deferred |-> <<>>, top |-> <<>>]

NeedsDeferred == pending.deferred # <<>>

AssistantKind == {"text", "thinking", "redacted_thinking", "tool_use", "image"}

OfKind(content, kinds) == Among(content, [kind : kinds, n : Nat])

(***************************************************************************)
(* The messages.                                                           *)
(***************************************************************************)

\* _convert_assistant_message; top is the message's own reasoning_content,
\* <<>> or one block.
AssistantMessage(content, top) ==
    [role |-> "assistant",
     content |-> OfKind(content, {"text"} \cup
         (IF reasoning_replay = "think_tags" THEN {"thinking"} ELSE {})),
     reasoning |->
         IF reasoning_replay # "reasoning_content" THEN <<>>
         ELSE IF top # <<>> THEN top ELSE OfKind(content, {"thinking"}),
     calls |-> OfKind(content, {"tool_use"})]

\* A message that is a plain string: reasoning in think tags comes first.
StringMessage(role, b, top) ==
    [role |-> role,
     content |-> (IF reasoning_replay = "think_tags" THEN top ELSE <<>>) \o <<b>>,
     reasoning |-> IF reasoning_replay = "reasoning_content" THEN top ELSE <<>>,
     calls |-> <<>>]

UserMessage(texts) ==
    [role |-> "user", content |-> texts, reasoning |-> <<>>, calls |-> <<>>]

ToolMessage(b) ==
    [role |-> "tool", content |-> <<b>>, reasoning |-> <<>>, calls |-> <<>>]

\* _deferred_post_tool_to_messages
DeferredMessages(p) ==
    IF p.deferred = <<>> THEN <<>> ELSE <<AssistantMessage(p.deferred, p.top)>>

\* _convert_assistant_message_with_split: the message up to and with its
\* calls, and what is deferred behind them.
FirstToolUse(content) ==
    CHOOSE i \in DOMAIN content :
        /\ content[i].kind = "tool_use"
        /\ \A j \in 1..(i - 1) : content[j].kind # "tool_use"

SplitMessage(content, top) ==
    [AssistantMessage(SubSeq(content, 1, FirstToolUse(content) - 1), top)
        EXCEPT !.calls = OfKind(content, {"tool_use"})]

Deferred(content, top) ==
    LET after == SubSeq(content, FirstToolUse(content), Len(content))
        blocksAfter == OfKind(after, AssistantKind \ {"tool_use"})
    IN  IF blocksAfter = <<>> THEN NoPending
        ELSE [ids |-> {b.n : b \in ToSet(OfKind(content, {"tool_use"}))},
              deferred |-> blocksAfter, top |-> top]

(***************************************************************************)
(* A user message that is a list: the texts between two results make one   *)
(* message; with something deferred it follows the last result it waits    *)
(* for (_convert_user_message and _convert_user_message_with_injection).   *)
(***************************************************************************)
FlushText(acc) ==
    IF acc.texts = <<>> THEN acc
    ELSE [acc EXCEPT !.out = Append(@, UserMessage(acc.texts)), !.texts = <<>>]

UserResult(acc, b) ==
    LET a == FlushText(acc)
        left == a.ids \ {b.n}
        out == Append(a.out, ToolMessage(b))
    IN  IF NeedsDeferred /\ left = {}
        THEN [a EXCEPT !.out = out \o DeferredMessages(pending),
                       !.ids = left, !.cleared = TRUE]
        ELSE [a EXCEPT !.out = out, !.ids = left]

UserBlock(acc, b) ==
    IF b.kind = "text" THEN [acc EXCEPT !.texts = Append(@, b)] ELSE UserResult(acc, b)

UserList(content) ==
    LET acc[i \in 0..Len(content)] ==
            IF i = 0
            THEN [out |-> <<>>, texts |-> <<>>, ids |-> pending.ids, cleared |-> FALSE]
            ELSE UserBlock(acc[i - 1], content[i])
    IN  FlushText(acc[Len(content)])

(***************************************************************************)
(* The conversation.                                                       *)
(***************************************************************************)
ConversionInit ==
    /\ reasoning_replay \in {"disabled", "think_tags", "reasoning_content"}
    /\ result = <<>>
    /\ pending = NoPending
    /\ refused = FALSE
    /\ turns = 0
    /\ blocks = <<>>
    /\ answerable = {}

\* Numbers a list of kinds behind the blocks sent so far.
Numbered(kinds) ==
    [i \in DOMAIN kinds |-> [kind |-> kinds[i], n |-> Len(blocks) + i]]

Send(content) ==
    /\ ~refused
    /\ turns < TurnMax
    /\ turns' = turns + 1
    /\ Len(blocks) + Len(content) <= BlockMax
    /\ blocks' = blocks \o content
    /\ UNCHANGED reasoning_replay

\* Numbered like a block but never counted: the reasoning_content of a message.
Top == {<<>>, <<[kind |-> "top", n |-> 0]>>}

AssistantList_OrphanDropped(content, top) ==
    LET calls == OfKind(content, {"tool_use"})
    IN  /\ Send(content)
        /\ OfKind(content, {"image"}) = <<>>
        /\ result' = result \o
               <<IF calls = <<>> THEN AssistantMessage(content, top)
                 ELSE SplitMessage(content, top)>>
        /\ pending' = IF calls = <<>> THEN NoPending ELSE Deferred(content, top)
        /\ answerable' = {b.n : b \in ToSet(calls)}
        /\ UNCHANGED refused

\* An assistant message that is a list: what is still deferred goes first.
AssistantList(content, top) ==
    LET calls == OfKind(content, {"tool_use"})
    IN  /\ Send(content)
        /\ OfKind(content, {"image"}) = <<>>
        /\ result' = result \o DeferredMessages(pending) \o
               <<IF calls = <<>> THEN AssistantMessage(content, top)
                 ELSE SplitMessage(content, top)>>
        /\ pending' = IF calls = <<>> THEN NoPending ELSE Deferred(content, top)
        /\ answerable' = {b.n : b \in ToSet(calls)}
        /\ UNCHANGED refused

\* _assert_no_forbidden_assistant_block; an image in a user's list is refused too,
\* to the same effect.
RefuseAssistantList(content) ==
    /\ Send(content)
    /\ OfKind(content, {"image"}) # <<>>
    /\ refused' = TRUE
    /\ UNCHANGED <<result, pending, answerable>>

\* A plain string of the assistant leaves what is deferred where it is; one of
\* the user sends it first.
AssistantString(top) ==
    LET content == Numbered(<<"text">>)
    IN  /\ Send(content)
        /\ result' = Append(result, StringMessage("assistant", content[1], top))
        /\ answerable' = {}
        /\ UNCHANGED <<pending, refused>>

UserString ==
    LET content == Numbered(<<"text">>)
    IN  /\ Send(content)
        /\ result' = result \o DeferredMessages(pending) \o
               <<StringMessage("user", content[1], <<>>)>>
        /\ pending' = NoPending
        /\ answerable' = {}
        /\ UNCHANGED refused

UserMessageList(content) ==
    LET user == UserList(content)
    IN  /\ Send(content)
        /\ result' = result \o user.out
        /\ pending' = IF user.cleared THEN NoPending ELSE [pending EXCEPT !.ids = user.ids]
        /\ answerable' =
               answerable \ {b.n : b \in ToSet(OfKind(content, {"tool_result"}))}
        /\ UNCHANGED refused

\* The lists of user blocks: texts, and results of answerable calls.
UserContents(k) ==
    {s \in [1..k -> [kind : {"text"}, n : {0}] \cup
                    [kind : {"tool_result"}, n : answerable]] :
        \A i, j \in 1..k : i # j /\ s[i] = s[j] => s[i].kind = "text"}

NumberTexts(s) ==
    [i \in DOMAIN s |-> IF s[i].kind = "text"
                        THEN [kind |-> "text", n |-> Len(blocks) + i] ELSE s[i]]

ConversionNext ==
    \/ \E k \in 1..(BlockMax - Len(blocks)) :
           \E kinds \in [1..k -> AssistantKind], top \in Top :
               AssistantList(Numbered(kinds), top)
    \/ \E k \in 1..(BlockMax - Len(blocks)) :
           \E kinds \in [1..k -> AssistantKind] : RefuseAssistantList(Numbered(kinds))
    \/ \E top \in Top : AssistantString(top)
    \/ UserString
    \/ \E k \in 1..(BlockMax - Len(blocks)) :
           \E content \in UserContents(k) : UserMessageList(NumberTexts(content))

(***************************************************************************)
(* Properties.                                                             *)
(***************************************************************************)

\* What the upstream would read if the list ended here: convert_messages sends
\* what is still deferred at its end.
Replayed == result \o DeferredMessages(pending)

BlocksOf(message) == message.content \o message.reasoning \o message.calls

\* Where a block can be in a list of messages.
Slots(messages) ==
    UNION {{<<i, k>> : k \in DOMAIN BlocksOf(messages[i])} : i \in DOMAIN messages}

BlockAt(messages, s) == BlocksOf(messages[s[1]])[s[2]]

ReplayedKind ==
    {"text", "tool_use", "tool_result"} \cup
    (IF reasoning_replay = "think_tags" THEN {"thinking"} ELSE {})

SaidOnce(messages) ==
    /\ \A k \in DOMAIN blocks : blocks[k].kind \in ReplayedKind =>
          \E s \in Slots(messages) : BlockAt(messages, s) = blocks[k]
    /\ \A s \in Slots(messages) : BlockAt(messages, s).kind \in ReplayedKind =>
          /\ \E k \in DOMAIN blocks : blocks[k] = BlockAt(messages, s)
          /\ \A t \in Slots(messages) : BlockAt(messages, t) = BlockAt(messages, s) => t = s

\* Every text, call and result of the conversation, and in think-tag mode every
\* thought, is sent upstream exactly once, however the client's results are
\* spread over its messages and whichever never arrive
\* (conversion.py:189 "Orphan: ... emit deferred to avoid a stuck session").
NothingLostOrDoubled == ~refused => SaidOnce(Replayed)

\* The calls that may be answered behind the first i messages: those of the last
\* assistant message.
CallsBehind(messages, i) ==
    UNION {{b.n : b \in ToSet(messages[j].calls)} :
              j \in {j \in 1..i : \A k \in (j + 1)..i : messages[k].role # "assistant"}}

AnsweredInTurn(messages) ==
    \A i \in DOMAIN messages : messages[i].role = "tool" =>
        messages[i].content[1].n \in CallsBehind(messages, i - 1)

\* Deferred text never comes between a call and its result: the last assistant
\* message before a tool message is the one that made the call.  An upstream
\* refuses anything else, which is why the text is deferred at all
\* (conversion.py:97-101).
ResultsFollowTheirCall == AnsweredInTurn(Replayed)

\* What an upstream reads of a conversation: all of it, once, with the results
\* behind their calls (conversion.py: convert_messages).
ConversationIsKept == NothingLostOrDoubled /\ ResultsFollowTheirCall
=============================================================================

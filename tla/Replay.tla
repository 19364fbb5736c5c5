-------------------------------- MODULE Replay --------------------------------
(***************************************************************************)
(* What a request body keeps of the conversation for an upstream that      *)
(* speaks Anthropic's own format: providers/deepseek/request.py and the    *)
(* generic policy of core/anthropic/native_messages_request.py.  Thoughts  *)
(* of earlier turns are kept only when thinking is on, and DeepSeek thinks *)
(* about the results of a tool only if the thoughts that led to the call   *)
(* are sent along.                                                         *)
(*                                                                         *)
(* A block is [kind, sound]: a thought that is sound is not empty (and is  *)
(* signed, where that matters).  The attachments inside a tool_result are  *)
(* left out: they never change what blocks there are.                      *)
(***************************************************************************)
EXTENDS Integers, Sequences, Queues

CONSTANTS
    ReplayTurns,  \* messages of a conversation
    ReplayBlocks  \* blocks of a message

ASSUME ReplayAssumption == {ReplayTurns, ReplayBlocks} \subseteq Nat

VARIABLES
    history,  \* the messages of the request: role and blocks
    asks,     \* thinking_enabled, and whether the request hints at thinking
    body      \* what was built: messages, thinking, hints; or refused

replayVars == <<history, asks, body>>

AssistantBlock == [kind : {"text", "tool_use", "redacted_thinking"}, sound : {TRUE}]
                      \cup [kind : {"thinking"}, sound : BOOLEAN]

ClientBlock ==
    [kind : {"text", "image", "server_tool", "tool_result"}, sound : {TRUE}]

NotBuilt == [provider |-> "none"]

AnyOf(kinds) == {b \in AssistantBlock \cup ClientBlock : b.kind \in kinds}

Thought == AnyOf({"thinking", "redacted_thinking"})

\* The messages with these blocks of the assistant left out.
Sanitized(messages, dropped) ==
    [i \in DOMAIN messages |->
        IF messages[i].role = "assistant"
        THEN [messages[i] EXCEPT !.content = Remaining(@, dropped)] ELSE messages[i]]

(***************************************************************************)
(* DeepSeek.                                                               *)
(***************************************************************************)
Omitted == [kind |-> "text", sound |-> TRUE]

\* _strip_unsupported_attachment_blocks: a message that is left empty says so.
StripMessage(content) ==
    LET left == Remaining(content, AnyOf({"image"}))
    IN  IF left = <<>> /\ content # <<>> THEN <<Omitted>> ELSE left

Strip(messages) ==
    [i \in DOMAIN messages |-> [messages[i] EXCEPT !.content = StripMessage(@)]]

Unsupported(messages) ==
    \E i \in DOMAIN messages :
        \E k \in DOMAIN messages[i].content : messages[i].content[k].kind = "server_tool"

HasToolHistory(messages) ==
    \E i \in DOMAIN messages :
        \E k \in DOMAIN messages[i].content :
            messages[i].content[k].kind \in {"tool_use", "tool_result"}

ThoughtBeforeTool_Anywhere(content) ==
    \E k \in DOMAIN content : content[k].kind = "thinking" /\ content[k].sound

\* _has_replayable_thinking_before_tool_use: the last thought before the first
\* call is not empty.
ThoughtBeforeTool(content) ==
    \E tool \in DOMAIN content : \E k \in 1..(tool - 1) :
        /\ content[tool].kind = "tool_use"
        /\ \A l \in 1..(tool - 1) : content[l].kind # "tool_use"
        /\ content[k].kind = "thinking" /\ content[k].sound
        /\ \A l \in (k + 1)..(tool - 1) : content[l].kind # "thinking"

HasReplayableThinking(messages) ==
    \E i \in DOMAIN messages :
        messages[i].role = "assistant" /\ ThoughtBeforeTool(messages[i].content)

UnsafeToolFollowup(messages) ==
    HasToolHistory(messages) /\ ~HasReplayableThinking(messages)

\* sanitize_deepseek_messages_for_native
DeepSeekDrops(thinking) == IF thinking THEN AnyOf({"redacted_thinking"}) ELSE Thought

BuildDeepSeek ==
    LET messages == Strip(history)
        effective == asks.thinking_enabled /\ ~UnsafeToolFollowup(messages)
    IN  /\ body = NotBuilt
        /\ body' = IF Unsupported(messages) THEN [provider |-> "refused"]
                   ELSE [provider |-> "deepseek",
                         messages |-> Sanitized(messages, DeepSeekDrops(effective)),
                         thinking |-> effective,
                         hints |-> asks.hints /\ (asks.thinking_enabled => effective)]
        /\ UNCHANGED <<history, asks>>

(***************************************************************************)
(* The generic body and OpenRouter's: only what could not be replayed, an  *)
(* unsigned or empty thought, is left out when thinking is on.             *)
(***************************************************************************)
NativeDrops(thinking) ==
    IF thinking THEN {b \in AnyOf({"thinking"}) : ~b.sound} ELSE Thought

BuildNative ==
    /\ body = NotBuilt
    /\ body' = [provider |-> "native",
                messages |-> Sanitized(history, NativeDrops(asks.thinking_enabled)),
                thinking |-> asks.thinking_enabled,
                hints |-> asks.hints]
    /\ UNCHANGED <<history, asks>>

(***************************************************************************)
(* The requests.                                                           *)
(***************************************************************************)
ReplayInit ==
    /\ history = <<>>
    /\ asks \in [thinking_enabled : BOOLEAN, hints : BOOLEAN]
    /\ body = NotBuilt

Say(role, content) ==
    /\ body = NotBuilt
    /\ Len(history) < ReplayTurns
    /\ history' = Append(history, [role |-> role, content |-> content])
    /\ UNCHANGED <<asks, body>>

ReplayNext ==
    \/ \E n \in 1..ReplayBlocks : \E content \in [1..n -> AssistantBlock] : Say("assistant", content)
    \/ \E n \in 1..ReplayBlocks : \E content \in [1..n -> ClientBlock] : Say("user", content)
    \/ BuildDeepSeek
    \/ BuildNative

(***************************************************************************)
(* The property.                                                           *)
(***************************************************************************)
ThoughtLedToTool(content) ==
    \E k, l \in DOMAIN content :
        /\ k < l /\ content[l].kind = "tool_use"
        /\ content[k].kind = "thinking" /\ content[k].sound

Tools(content) == Among(content, AnyOf({"tool_use", "tool_result"}))

\* DeepSeek is asked to think about a tool's result only if the body it gets
\* still holds the thought before a call; a body without thinking holds no
\* thought at all, nor the hints that would switch it on; and the calls and the
\* results stay as they were, in number and order (deepseek/request.py:393-437,
\* native_messages_request.py:119-171).
BodyIsReplayable ==
    body.provider \in {"deepseek", "native"} =>
        /\ body.provider = "deepseek" /\ body.thinking /\ HasToolHistory(body.messages)
               => \E i \in DOMAIN body.messages : ThoughtLedToTool(body.messages[i].content)
        /\ (~asks.thinking_enabled \/ (body.provider = "deepseek" /\ UnsafeToolFollowup(history)))
               => \A i \in DOMAIN body.messages : \A k \in DOMAIN body.messages[i].content :
                      body.messages[i].content[k] \notin Thought
        /\ body.provider = "deepseek" /\ body.hints /\ asks.thinking_enabled
               => ~UnsafeToolFollowup(history)
        /\ \A i \in DOMAIN history :
               Tools(body.messages[i].content) = Tools(history[i].content)
=============================================================================

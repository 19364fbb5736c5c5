----------------------------- MODULE ChatStream -----------------------------
(***************************************************************************)
(* One answer of an OpenAI-compatible provider, turned into Anthropic's    *)
(* stream of events (providers/openai_compat.py, core/anthropic/sse.py,    *)
(* core/anthropic/stream_recovery.py).  Upstream sends chunks and may      *)
(* break off anywhere.  Events are held back for a moment, so that an      *)
(* early break can be retried without the client noticing; after that a    *)
(* break is mended by asking for the rest of the text or of the tools'     *)
(* arguments, or it ends the message with an error.                        *)
(*                                                                         *)
(* A chunk carries one thing here: what one chunk does with several, the   *)
(* code does as for several chunks.  Content has already passed the think  *)
(* tag and tool call parsers, whose output may be anything, also nothing.  *)
(* An event is its kind of block, its index, and the attempt it is from.   *)
(***************************************************************************)
EXTENDS Integers, Sequences, SequencesExt

CONSTANTS ChunkMax,    \* bound: chunks sent upstream, all attempts together
          ToolMax,     \* bound: tool calls in one answer
          MaxRetries   \* EARLY_TRANSPARENT_MAX_RETRIES (4 in the code)

ASSUME StreamAssumption ==
    /\ ChunkMax \in Nat
    /\ ToolMax \in Nat
    /\ MaxRetries \in Nat

VARIABLES
    phase,          \* not asked for yet, awaiting the connection, the next chunk or a
                    \* recovery, or ended
    sse,            \* the SSEBuilder, with the events of the running step in "out"
    held,           \* RecoveryHoldbackBuffer._events
    committed,      \* RecoveryHoldbackBuffer.committed
    early_retries,  \* early_retries, which numbers the attempts
    finish_reason,  \* a finish_reason has been seen
    thinking,       \* thinking_enabled
    chunks,         \* chunks so far
    sent            \* what the client has received, after message_start

vars == <<phase, sse, held, committed, early_retries, finish_reason, thinking, chunks, sent>>

None == -1

(* Names of the tools of a request: "task" has its arguments normalised,     *)
(* "aliased" has them renamed; both are held until they are complete JSON.   *)
Name == {"", "plain", "task", "aliased"}

\* ToolCallState: json is what contents amounts to, buffer what waits for the
\* name or for the rest of the arguments, done is task_args_emitted.
Json == {"none", "partial", "complete"}
NewTool == [block |-> None, name |-> "", json |-> "none", buffer |-> "none", done |-> FALSE]

NewBuilder == [next |-> 0, text |-> None, thinking |-> None,
               text_started |-> FALSE, thinking_started |-> FALSE,
               tools |-> <<>>, out |-> <<>>]

Event(kind, index, block) == [event |-> kind, index |-> index, block |-> block, attempt |-> early_retries]

TypeOK ==
    /\ phase \in {"created", "opening", "reading", "recovering", "ended"}
    /\ DOMAIN sse = DOMAIN NewBuilder
    /\ sse.next \in Nat /\ sse.text < sse.next /\ sse.thinking < sse.next
    /\ sse.text_started => sse.text # None
    /\ sse.thinking_started => sse.thinking # None
    /\ ~(sse.text_started /\ sse.thinking_started)
    /\ Len(sse.tools) <= ToolMax
    /\ \A i \in DOMAIN sse.tools :
          /\ sse.tools[i].name \in Name
          /\ {sse.tools[i].json, sse.tools[i].buffer} \subseteq Json
          /\ sse.tools[i].block < sse.next
    /\ sse.out = <<>>
    /\ committed => held = <<>>
    /\ early_retries \in 0..MaxRetries
    /\ {finish_reason, thinking, committed} \subseteq BOOLEAN
    /\ chunks \in 0..ChunkMax

Init ==
    /\ phase = "created"
    /\ sse = NewBuilder
    /\ held = <<>>
    /\ committed = FALSE
    /\ early_retries = 0
    /\ finish_reason = FALSE
    /\ thinking \in BOOLEAN
    /\ chunks = 0
    /\ sent = <<>>

-----------------------------------------------------------------------------
(* The builder: each operation takes a builder and gives the next one. *)

Emit(s, e) == [s EXCEPT !.out = Append(@, e)]

\* allocate_index; the new block has the index s.next.
Allocate(s) == [s EXCEPT !.next = @ + 1]

StartThinking(s) ==
    Emit([Allocate(s) EXCEPT !.thinking = s.next, !.thinking_started = TRUE],
         Event("start", s.next, "thinking"))

StartText(s) ==
    Emit([Allocate(s) EXCEPT !.text = s.next, !.text_started = TRUE],
         Event("start", s.next, "text"))

StopThinking(s) ==
    IF s.thinking_started
    THEN Emit([s EXCEPT !.thinking_started = FALSE], Event("stop", s.thinking, "thinking"))
    ELSE s

StopText(s) ==
    IF s.text_started
    THEN Emit([s EXCEPT !.text_started = FALSE], Event("stop", s.text, "text"))
    ELSE s

EnsureThinking(s) ==
    LET t == StopText(s) IN IF t.thinking_started THEN t ELSE StartThinking(t)

EnsureText(s) ==
    LET t == StopThinking(s) IN IF t.text_started THEN t ELSE StartText(t)

Say(s) == LET t == EnsureText(s) IN Emit(t, Event("delta", t.text, "text"))
Think(s) == LET t == EnsureThinking(s) IN Emit(t, Event("delta", t.thinking, "thinking"))

CloseContent(s) == StopText(StopThinking(s))

\* A block that is opened and closed at once: a tool call found in the text,
\* or the text of an error.
WholeBlock(s, block) ==
    Emit(Emit(Emit(Allocate(s), Event("start", s.next, block)), Event("delta", s.next, block)),
         Event("stop", s.next, block))

FoundTool(s) == WholeBlock(CloseContent(s), "tool_use")

Started(s) == {i \in DOMAIN s.tools : s.tools[i].block # None}

\* The events of one kind for the tools of a set, in the order of the tools.
ToolEvents(s, I, kind) ==
    LET of[i \in 0..Len(s.tools)] ==
            IF i = 0 THEN <<>>
            ELSE IF i \in I THEN Append(of[i - 1], Event(kind, s.tools[i].block, "tool_use"))
            ELSE of[i - 1]
    IN  of[Len(s.tools)]

CloseAll_ContentOnly(s) == CloseContent(s)

CloseAll(s) ==
    LET t == CloseContent(s) IN [t EXCEPT !.out = @ \o ToolEvents(t, Started(t), "stop")]

\* _all_started_tools_complete
AllComplete(s) ==
    Started(s) # {} /\ \A i \in Started(s) : s.tools[i].json = "complete"

GeneratedOutput(s) == s.text # None \/ s.thinking # None \/ Started(s) # {}

-----------------------------------------------------------------------------
(* Native tool calls. *)

ToolDelta(s, i, json) ==
    Emit([s EXCEPT !.tools[i].json = json], Event("delta", s.tools[i].block, "tool_use"))

\* _emit_tool_arg_delta: json says what the arguments so far amount to.
EmitArgs(s, i, json) ==
    LET t == s.tools[i]
    IN  IF t.name = "plain" THEN ToolDelta(s, i, json)
        ELSE IF t.name = "task" /\ t.done THEN s
        ELSE IF json = "partial" THEN [s EXCEPT !.tools[i].buffer = "partial"]
        ELSE [ToolDelta(s, i, IF t.json = "none" THEN "complete" ELSE "partial")
                 EXCEPT !.tools[i].buffer = "none", !.tools[i].done = (t.name = "task")]

\* register_tool_name: the name comes in one piece or in several, and an aliased
\* one is never the beginning of another.
WithName(s, i, name) ==
    LET t == IF i \in DOMAIN s.tools THEN s ELSE [s EXCEPT !.tools = Append(@, NewTool)]
    IN  IF name = "" \/ t.tools[i].name = "aliased" THEN t ELSE [t EXCEPT !.tools[i].name = name]

\* The block starts with the first piece of the name.
WithBlock(s, i) ==
    LET t == s.tools[i]
        u == Emit([Allocate(s) EXCEPT !.tools[i].block = s.next],
                  Event("start", s.next, "tool_use"))
    IN  IF t.block # None \/ t.name = "" THEN s
        ELSE IF t.buffer = "none" THEN u
        ELSE EmitArgs([u EXCEPT !.tools[i].buffer = "none"], i, t.buffer)

\* The arguments of the chunk; json is what all so far amount to.
WithArgs(s, i, json) ==
    IF json = "none" THEN s
    ELSE IF s.tools[i].block = None THEN [s EXCEPT !.tools[i].buffer = json]
    ELSE EmitArgs(s, i, json)

\* What is still in the buffers of the started tools goes out as it is, or as
\* "{}" for a Task.
FlushTools(s) ==
    LET I == {i \in Started(s) : s.tools[i].buffer # "none"}
    IN  [s EXCEPT !.out = @ \o ToolEvents(s, I, "delta")]

-----------------------------------------------------------------------------
(* Sending. *)

\* hold_event for the events of s: the hold-back may end with any of them, and
\* what follows goes out at once.
Push(s) ==
    \E t \in {s} :
    /\ sse' = [t EXCEPT !.out = <<>>]
    /\ \/ /\ ~committed
          /\ held' = held \o t.out
          /\ UNCHANGED <<committed, sent>>
       \/ /\ committed \/ t.out # <<>>
          /\ sent' = sent \o held \o t.out
          /\ held' = <<>>
          /\ committed' = TRUE

\* What was held, the events of s and the end of the message go out.
EndWith(s, stop_reason) ==
    \E t \in {s} :
    /\ sent' = sent \o held \o t.out \o <<Event("message_delta", None, stop_reason),
                                         Event("message_stop", None, "")>>
    /\ held' = <<>>
    /\ committed' = TRUE
    /\ sse' = [t EXCEPT !.out = <<>>]
    /\ phase' = "ended"

\* _emit_openai_error_tail; without any output it is that of a new builder.
ErrorTail ==
    \E s \in {CloseAll(IF committed \/ held # <<>> THEN sse ELSE NewBuilder)} :
        EndWith(IF Started(s) # {} THEN Emit(s, Event("error", None, ""))
                ELSE WholeBlock(s, "text"), "end_turn")

-----------------------------------------------------------------------------
\* The client begins to read: message_start goes out.
Begin ==
    /\ phase = "created"
    /\ phase' = "opening"
    /\ UNCHANGED <<sse, held, committed, early_retries, finish_reason, thinking, chunks, sent>>

Open ==
    /\ phase = "opening"
    /\ phase' = "reading"
    /\ UNCHANGED <<sse, held, committed, early_retries, finish_reason, thinking, chunks, sent>>

\* No connection, after the retries of the rate limiter.
OpenFails ==
    /\ phase = "opening"
    /\ ErrorTail
    /\ UNCHANGED <<early_retries, finish_reason, thinking, chunks>>

Chunk ==
    /\ phase = "reading"
    /\ chunks < ChunkMax
    /\ chunks' = chunks + 1
    /\ UNCHANGED <<phase, early_retries, thinking>>

\* Reasoning, in a field of its own or in think tags.
ThinkingChunk ==
    /\ Chunk
    /\ Push(IF thinking THEN Think(sse) ELSE sse)
    /\ UNCHANGED finish_reason

TextChunk ==
    /\ Chunk
    /\ Push(Say(sse))
    /\ UNCHANGED finish_reason

FoundToolChunk ==
    /\ Chunk
    /\ Push(FoundTool(sse))
    /\ UNCHANGED finish_reason

\* _process_tool_call, after the blocks of text and thinking are closed.
ToolCallChunk ==
    /\ Chunk
    /\ \E i \in 1..ToolMax, name \in Name, json \in Json :
          /\ i <= Len(sse.tools) + 1
          /\ \E s \in {WithName(CloseContent(sse), i, name)} :
             \E t \in {WithBlock(s, i)} : Push(WithArgs(t, i, json))
    /\ UNCHANGED finish_reason

FinishChunk ==
    /\ Chunk
    /\ finish_reason' = TRUE
    /\ UNCHANGED <<sse, held, committed, sent>>

\* The end of a complete answer.  The parsers may still hold a piece of text or
\* thinking and a tool call.  A message without a block gets a text block, and
\* so does one with thinking whose text is blank.
Complete ==
    /\ phase = "reading" /\ finish_reason
    /\ \E rest \in {"", "text", "thinking"}, tool \in BOOLEAN :
          \E a \in {IF rest = "text" THEN Say(sse)
                    ELSE IF rest = "thinking" /\ thinking THEN Think(sse)
                    ELSE sse} :
          \E b \in {IF tool THEN FoundTool(a) ELSE a} :
             \/ /\ GeneratedOutput(b)
                /\ EndWith(CloseAll(FlushTools(b)), "finished")
             \/ /\ Started(b) = {} /\ (b.text = None \/ b.thinking # None)
                /\ EndWith(CloseAll(FlushTools(Say(b))), "finished")
    /\ UNCHANGED <<early_retries, finish_reason, thinking, chunks>>

\* A retry the client does not notice, allowed while nothing went out and the
\* answer is not worth keeping.
MayRetry == ~committed /\ ~AllComplete(sse) /\ early_retries < MaxRetries

Retried_NotCounted ==
    /\ UNCHANGED early_retries
    /\ held' = <<>>
    /\ sse' = NewBuilder
    /\ finish_reason' = FALSE
    /\ phase' = "opening"

Retried ==
    /\ early_retries' = early_retries + 1
    /\ held' = <<>>
    /\ sse' = NewBuilder
    /\ finish_reason' = FALSE
    /\ phase' = "opening"

\* The stream breaks off with an error that may be retried, or ends without a
\* finish_reason.
Break ==
    /\ phase = "reading"
    /\ \/ /\ MayRetry
          /\ Retried
          /\ UNCHANGED <<committed, sent>>
       \/ /\ ~MayRetry /\ GeneratedOutput(sse)
          /\ phase' = "recovering"
          /\ UNCHANGED <<sse, held, committed, early_retries, finish_reason, sent>>
       \/ /\ ~MayRetry /\ ~GeneratedOutput(sse)
          /\ ErrorTail
          /\ UNCHANGED <<early_retries, finish_reason>>
    /\ UNCHANGED <<thinking, chunks>>

\* Any other error.
BreakForGood ==
    /\ phase = "reading"
    /\ ErrorTail
    /\ UNCHANGED <<early_retries, finish_reason, thinking, chunks>>

-----------------------------------------------------------------------------
(* Recovery: _openai_recovery_events. *)

\* The tools' arguments are complete, or the model supplied what was missing.
RepairTools ==
    LET I == {i \in Started(sse) : sse.tools[i].json # "complete"}
        s == [sse EXCEPT !.out = ToolEvents(sse, I, "delta"),
                         !.tools = [i \in DOMAIN @ |->
                             IF i \in I THEN [@[i] EXCEPT !.json = "complete"] ELSE @[i]]]
    IN  /\ phase = "recovering" /\ Started(sse) # {}
        /\ EndWith(CloseAll(s), "tool_use")
        /\ UNCHANGED <<early_retries, finish_reason, thinking, chunks>>

\* The model continued; the suffixes that are new go out.
ContinueText ==
    /\ phase = "recovering" /\ Started(sse) = {}
    /\ \E more \in (SUBSET {"thinking", "text"}) \ {{}} :
          LET t == IF "thinking" \in more THEN Think(sse) ELSE sse
          IN  EndWith(CloseAll(IF "text" \in more THEN Say(t) ELSE t), "end_turn")
    /\ UNCHANGED <<early_retries, finish_reason, thinking, chunks>>

\* The request failed too, or its answer does not fit.
RecoveryFails ==
    /\ phase = "recovering"
    /\ ~AllComplete(sse)
    /\ ErrorTail
    /\ UNCHANGED <<early_retries, finish_reason, thinking, chunks>>

-----------------------------------------------------------------------------
Upstream ==
    \/ ThinkingChunk \/ TextChunk \/ FoundToolChunk \/ ToolCallChunk \/ FinishChunk

Next ==
    \/ Begin
    \/ Open \/ OpenFails
    \/ Upstream
    \/ Complete \/ Break \/ BreakForGood
    \/ RepairTools \/ ContinueText \/ RecoveryFails

Spec == Init /\ [][Next]_vars

\* Every wait for upstream ends: connecting and reading have time-outs, for the
\* answer and for what is asked for in a recovery.  Chunks may come or not, but
\* an answer is finite.
StreamFairness ==
    WF_vars(\/ Open \/ OpenFails
            \/ Complete \/ Break \/ BreakForGood
            \/ RepairTools \/ ContinueText \/ RecoveryFails)

FairSpec == Spec /\ StreamFairness

-----------------------------------------------------------------------------
Is(k, event, index) == sent[k].event = event /\ sent[k].index = index

\* What assert_anthropic_stream_contract (stream_contracts.py:97-159) asks of a
\* stream at any time: an index is used by one block, a delta or a stop has its
\* block open, a delta is of the block's kind, and nothing follows message_stop.
\* It covers retries, mended streams and errors in the middle.
WellFormed ==
    \A k \in DOMAIN sent :
        /\ sent[k].event = "start" =>
              \A j \in 1..k - 1 : ~Is(j, "start", sent[k].index)
        /\ sent[k].event \in {"delta", "stop"} =>
              /\ \E j \in 1..k - 1 : Is(j, "start", sent[k].index) /\ sent[j].block = sent[k].block
              /\ \A j \in 1..k - 1 : ~Is(j, "stop", sent[k].index)
        /\ sent[k].event = "message_stop" => k = Len(sent)

\* ... and at its end: message_stop, no open block, and at least one block
\* (stream_contracts.py:109, 159-162), however the stream ended.
WholeAtEnd ==
    phase = "ended" =>
        /\ Last(sent).event = "message_stop"
        /\ \E k \in DOMAIN sent : sent[k].event = "start"
        /\ \A k \in DOMAIN sent :
              sent[k].event = "start" => \E j \in DOMAIN sent : Is(j, "stop", sent[k].index)

\* "Briefly hold downstream SSE so early stream cutoffs can be retried
\* invisibly" (stream_recovery.py:51): what a client receives is never spliced
\* from two attempts.
OneAttempt == \A j, k \in DOMAIN sent : sent[j].attempt = sent[k].attempt

\* The end of a message gives the client all that was held back for it, and all
\* blocks of the builder: none is lost when the holdback is flushed, discarded
\* or replaced (openai_compat.py:843-868, 966).
NothingHeldIsLost ==
    phase = "ended" =>
        /\ held = <<>>
        /\ {sent[k].index : k \in {j \in DOMAIN sent : sent[j].event = "start"}} = 0..sse.next - 1

\* .env.example:125 calls thinking_enabled a switch for "Claude thinking blocks":
\* switched off, the client receives none.
NoThinkingUnlessEnabled ==
    \A k \in DOMAIN sent : sent[k].block = "thinking" => thinking

\* Whoever waits for an answer hears its end, though the provider may break off
\* every attempt (openai_compat.py: _stream_response_impl).
StreamEnds == phase = "opening" ~> phase = "ended"

\* A client can replay the stream: its blocks are well formed and of one attempt
\* at every moment, and when it is over it is complete and holds everything the
\* transport held back (openai_compat.py: _stream_response_impl; sse.py: SSEBuilder).
StreamIsWhole == TypeOK /\ WellFormed /\ WholeAtEnd /\ OneAttempt /\ NothingHeldIsLost
=============================================================================

---------------------------- MODULE NativeStream ----------------------------
(***************************************************************************)
(* One answer of a provider that speaks Anthropic's protocol itself        *)
(* (providers/anthropic_messages.py).  Its events pass through a policy    *)
(* that drops thinking when it is switched off, gives blocks indexes of    *)
(* their own and closes blocks that overlap (native_sse_block_policy.py);  *)
(* a tracker remembers what was passed on (emitted_sse_tracker.py), so     *)
(* that a break can be retried, mended or ended in good order.             *)
(*                                                                         *)
(* The tracker only observes what is emitted: here it is a function of     *)
(* what the client received and what is held back for it.  Upstream sends  *)
(* each of its blocks under one index, of one kind; blocks may overlap,    *)
(* lack their start (text and tools) and have their stop repeated.         *)
(***************************************************************************)
EXTENDS Integers, Sequences, SequencesExt, FiniteSets, Queues

CONSTANTS Index,       \* upstream's indexes of blocks
          EventMax,    \* bound: events of blocks upstream, all attempts together
          MaxRetries   \* EARLY_TRANSPARENT_MAX_RETRIES (4 in the code)

ASSUME NativeAssumption ==
    /\ Index \subseteq Nat
    /\ EventMax \in Nat
    /\ MaxRetries \in Nat

VARIABLES
    phase,          \* awaiting the connection, the next event or a recovery, or ended
    kind,           \* the kind of each upstream block
    upstream,       \* which of them have not begun, are open or have stopped
    finished,       \* what has come of the end: nothing, message_delta or message_stop
    state,          \* NativeSseBlockPolicyState
    held,           \* RecoveryHoldbackBuffer._events
    committed,      \* RecoveryHoldbackBuffer.committed
    early_retries,  \* early_retries, which numbers the attempts
    thinking,       \* thinking_enabled
    events,         \* events upstream so far
    deltas,         \* history: deltas in this attempt that are not to be dropped
    sent            \* what the client has received, after message_start

vars == <<phase, kind, upstream, finished, state, held, committed, early_retries,
          thinking, events, deltas, sent>>

None == -1
Kind == {"text", "thinking", "tool_use"}

\* What the arguments of a tool amount to after an event of its block.
Json == {"none", "partial", "complete"}

NewState == [next |-> 0, down |-> [u \in Index |-> None], open |-> {},
             dropped |-> {}, suppressed |-> {}, named |-> {}]

Event(type, index, block) ==
    [event |-> type, index |-> index, block |-> block, json |-> "none",
     named |-> TRUE, repair |-> FALSE, attempt |-> early_retries]

TypeOK ==
    /\ phase \in {"opening", "reading", "recovering", "ended"}
    /\ kind \in [Index -> Kind]
    /\ upstream \in [Index -> {"fresh", "open", "stopped"}]
    /\ finished \in {"no", "reason", "stop"}
    /\ state.next \in Nat
    /\ \A u \in Index : state.down[u] < state.next
    /\ state.open \subseteq {u \in Index : state.down[u] # None} \ state.suppressed
    /\ committed => held = <<>>
    /\ early_retries \in 0..MaxRetries
    /\ {committed, thinking} \subseteq BOOLEAN
    /\ events \in 0..EventMax

NewAnswer ==
    /\ kind' \in [Index -> Kind]
    /\ upstream' = [u \in Index |-> "fresh"]
    /\ finished' = "no"
    /\ state' = NewState
    /\ deltas' = 0

Init ==
    /\ phase = "opening"
    /\ kind \in [Index -> Kind]
    /\ upstream = [u \in Index |-> "fresh"]
    /\ finished = "no"
    /\ state = NewState
    /\ held = <<>>
    /\ committed = FALSE
    /\ early_retries = 0
    /\ thinking \in BOOLEAN
    /\ events = 0
    /\ deltas = 0
    /\ sent = <<>>

-----------------------------------------------------------------------------
(* The policy: what becomes of one event of upstream's block u.  Each        *)
(* operator gives the next state and the events that go out.                 *)

Result(s, out) == [state |-> s, out |-> out]

Dropped(u) == kind[u] = "thinking" /\ ~thinking

\* Every block but u that is open gets a stop of its own, and upstream's is
\* suppressed when it comes.
CloseOthers(s, u) ==
    LET others == s.open \ {u}
        Stop(o) == Event("stop", s.down[o], kind[o])
    IN  Result([s EXCEPT !.open = @ \ others, !.suppressed = @ \cup others],
               [i \in 1..Cardinality(others) |-> Stop(SetToSeq(others)[i])])

\* _allocate_new_segment
Segment(s, u) ==
    [s EXCEPT !.next = @ + 1, !.down[u] = s.next, !.open = @ \cup {u},
              !.suppressed = @ \ {u}]

\* content_block_start
OnStart(s, u) ==
    LET c == CloseOthers(s, u)
    IN  IF Dropped(u) THEN Result([s EXCEPT !.dropped = @ \cup {u}], <<>>)
        ELSE Result([Segment(c.state, u) EXCEPT !.named = @ \cup {u}],
                    Append(c.out, Event("start", c.state.next, kind[u])))

\* content_block_delta: a block that was closed for another, or never started,
\* is started (again), under a new index and without closing others; a tool
\* that upstream never started has no name then.
OnDelta(s, u, json) ==
    LET delta(t) == [Event("delta", t.down[u], kind[u]) EXCEPT !.json = json]
        t == Segment(s, u)
        start == [Event("start", s.next, kind[u]) EXCEPT !.named = u \in s.named]
    IN  IF u \in s.dropped THEN Result(s, <<>>)
        ELSE IF u \in s.open THEN Result(s, <<delta(s)>>)
        ELSE Result(t, <<start, delta(t)>>)

\* content_block_stop: suppressed, spurious and repeated stops are dropped.
OnStop(s, u) ==
    IF u \in s.dropped THEN Result(s, <<>>)
    ELSE IF u \in s.suppressed THEN Result([s EXCEPT !.suppressed = @ \ {u}], <<>>)
    ELSE IF u \in s.open
         THEN Result([s EXCEPT !.open = @ \ {u}], <<Event("stop", s.down[u], kind[u])>>)
    ELSE Result(s, <<>>)

-----------------------------------------------------------------------------
(* The tracker: what it knows of the emitted events. *)

Emitted == sent \o held

Starts(out) == {e \in ToSet(out) : e.event = "start"}
Stopped(out) == {out[k].index : k \in {j \in DOMAIN out : out[j].event = "stop"}}

\* _open_stack, the last block first.
Unstopped(out) == {e \in Starts(out) : e.index \notin Stopped(out)}
OpenStack(out) == Reverse(Among(out, Unstopped(out)))

NextContentIndex(out) ==
    IF Starts(out) = {} THEN 0
    ELSE 1 + CHOOSE i \in {e.index : e \in Starts(out)} :
                 \A e \in Starts(out) : e.index <= i

\* The arguments of a tool so far.
Arguments(out, index) ==
    LET of == SelectSeq(out, LAMBDA e : e.event = "delta" /\ e.index = index)
    IN  IF of = <<>> THEN "none" ELSE Last(of).json

Tools(out) == {e \in Starts(out) : e.block = "tool_use"}

\* can_salvage_tool_use
Salvageable(out) ==
    /\ Tools(out) # {}
    /\ \A t \in Tools(out) : t.named /\ Arguments(out, t.index) = "complete"

\* iter_close_unclosed_blocks
Closing(out) ==
    LET s == OpenStack(out) IN [i \in DOMAIN s |-> [s[i] EXCEPT !.event = "stop"]]

\* append_text_suffix and append_thinking_suffix: the last open block of the
\* kind goes on, or a new one starts.
Suffix(out, block) ==
    LET open == Among(out, {e \in Unstopped(out) : e.block = block})
        index == IF open = <<>> THEN NextContentIndex(out) ELSE Last(open).index
        start == IF open = <<>> THEN <<Event("start", index, block)>> ELSE <<>>
    IN  out \o start \o <<Event("delta", index, block)>>

\* append_tool_repair_suffix for each tool whose arguments are not complete.
Repairs(out) ==
    LET broken == Among(out, {t \in Tools(out) : Arguments(out, t.index) # "complete"})
    IN  [i \in DOMAIN broken |-> [Event("delta", broken[i].index, "tool_use")
                                     EXCEPT !.json = "complete", !.repair = TRUE]]

-----------------------------------------------------------------------------
(* Sending. *)

\* RecoveryHoldbackBuffer.push: the hold-back may end with any event.
Push(out) ==
    \/ /\ ~committed
       /\ held' = held \o out
       /\ UNCHANGED <<committed, sent>>
    \/ /\ committed \/ out # <<>>
       /\ sent' = Emitted \o out
       /\ held' = <<>>
       /\ committed' = TRUE

\* What was held goes out before what ends the message.
EndWith(out) ==
    /\ sent' = out
    /\ held' = <<>>
    /\ committed' = TRUE
    /\ phase' = "ended"

\* iter_success_tail
SuccessTail(out, stop_reason) ==
    LET reason == IF finished = "no" THEN <<Event("message_delta", None, stop_reason)>> ELSE <<>>
        stop == IF finished = "stop" THEN <<>> ELSE <<Event("message_stop", None, "none")>>
    IN  \E closing \in {Closing(out)} : EndWith(out \o closing \o reason \o stop)

\* The message ends with a block that tells the error; without any output that
\* block is the whole message.
ErrorTail ==
    \E closing \in {Closing(Emitted)}, index \in {NextContentIndex(Emitted)} :
        EndWith(Emitted \o closing \o
            <<Event("start", index, "text"), Event("delta", index, "text"),
              Event("stop", index, "text"), Event("message_delta", None, "end_turn"),
              Event("message_stop", None, "none")>>)

-----------------------------------------------------------------------------
Open ==
    /\ phase = "opening"
    /\ phase' = "reading"
    /\ UNCHANGED <<kind, upstream, finished, state, held, committed, early_retries,
                   thinking, events, deltas, sent>>

\* No connection, after the retries of the rate limiter.
OpenFails ==
    /\ phase = "opening"
    /\ ErrorTail
    /\ UNCHANGED <<kind, upstream, finished, state, early_retries, thinking, events, deltas>>

Receive ==
    /\ phase = "reading" /\ finished = "no"
    /\ events < EventMax
    /\ events' = events + 1
    /\ UNCHANGED <<phase, kind, finished, early_retries, thinking>>

Pass(result) ==
    /\ state' = result.state
    /\ Push(result.out)

BlockStart(u) ==
    /\ Receive
    /\ upstream[u] = "fresh"
    /\ upstream' = [upstream EXCEPT ![u] = "open"]
    /\ Pass(OnStart(state, u))
    /\ UNCHANGED deltas

BlockDelta(u) ==
    /\ Receive
    /\ \/ upstream[u] = "open"
       \/ upstream[u] = "fresh" /\ kind[u] # "thinking"
    /\ upstream' = [upstream EXCEPT ![u] = "open"]
    /\ \E json \in IF kind[u] = "tool_use" THEN Json \ {"none"} ELSE {"none"} :
          Pass(OnDelta(state, u, json))
    /\ deltas' = IF Dropped(u) THEN deltas ELSE deltas + 1

\* Also a stop that comes a second time.
BlockStop(u) ==
    /\ Receive
    /\ upstream[u] # "fresh"
    /\ upstream' = [upstream EXCEPT ![u] = "stopped"]
    /\ Pass(OnStop(state, u))
    /\ UNCHANGED deltas

\* message_delta and message_stop pass as they are.
MessageEvent ==
    /\ phase = "reading" /\ finished # "stop"
    /\ \A u \in Index : upstream[u] # "open"
    /\ IF finished = "no"
       THEN finished' = "reason" /\ Push(<<Event("message_delta", None, "finished")>>)
       ELSE finished' = "stop" /\ Push(<<Event("message_stop", None, "none")>>)
    /\ UNCHANGED <<phase, kind, upstream, state, early_retries, thinking, events, deltas>>

\* The stream ends after message_stop.
Complete ==
    /\ phase = "reading" /\ finished = "stop"
    /\ EndWith(Emitted)
    /\ UNCHANGED <<kind, upstream, finished, state, early_retries, thinking, events, deltas>>

MayRetry_Committed == ~Salvageable(Emitted) /\ early_retries < MaxRetries

MayRetry == ~committed /\ ~Salvageable(Emitted) /\ early_retries < MaxRetries

Retried_NotCounted ==
    /\ UNCHANGED early_retries
    /\ held' = <<>>
    /\ NewAnswer
    /\ phase' = "opening"

\* A retry the client does not notice, with new state everywhere.
Retried ==
    /\ early_retries' = early_retries + 1
    /\ held' = <<>>
    /\ NewAnswer
    /\ phase' = "opening"

\* The stream breaks off with an error that may be retried, also after
\* message_stop, or ends without message_stop.
Break ==
    /\ phase = "reading"
    /\ \/ /\ MayRetry
          /\ Retried
          /\ UNCHANGED <<committed, sent>>
       \/ /\ ~MayRetry
          /\ \/ /\ Starts(Emitted) # {}
                /\ phase' = "recovering"
                /\ UNCHANGED <<held, committed, sent>>
             \/ Starts(Emitted) = {} /\ ErrorTail
          /\ UNCHANGED <<kind, upstream, finished, state, early_retries, deltas>>
    /\ UNCHANGED <<thinking, events>>

\* Any other error.
BreakForGood ==
    /\ phase = "reading"
    /\ ErrorTail
    /\ UNCHANGED <<kind, upstream, finished, state, early_retries, thinking, events, deltas>>

-----------------------------------------------------------------------------
(* Recovery: _native_recovery_events. *)

Recover ==
    /\ phase = "recovering"
    /\ UNCHANGED <<kind, upstream, finished, state, early_retries, thinking, events, deltas>>

\* The tools' arguments are complete, or the model supplied what was missing.
RepairTools ==
    /\ Recover
    /\ Tools(Emitted) # {} /\ \A t \in Tools(Emitted) : t.named
    /\ \E repairs \in {Repairs(Emitted)} : SuccessTail(Emitted \o repairs, "tool_use")

\* The model continued: the suffixes that are new go out.  The policy has
\* already dropped the thinking of the continuation when it is switched off.
ContinueText ==
    /\ Recover
    /\ Tools(Emitted) = {}
    /\ \E k \in DOMAIN Emitted : Emitted[k].event = "delta"
    /\ \E more \in (SUBSET {"thinking", "text"}) \ {{}} :
          /\ "thinking" \in more => thinking
          /\ \E t \in {IF "thinking" \in more THEN Suffix(Emitted, "thinking") ELSE Emitted} :
             \E out \in {IF "text" \in more THEN Suffix(t, "text") ELSE t} :
                SuccessTail(out, "end_turn")

\* The request failed too, or its answer does not fit.
RecoveryFails ==
    /\ Recover
    /\ ~Salvageable(Emitted)
    /\ ErrorTail

-----------------------------------------------------------------------------
Upstream ==
    \/ \E u \in Index : BlockStart(u) \/ BlockDelta(u) \/ BlockStop(u)
    \/ MessageEvent

Next ==
    \/ Open \/ OpenFails
    \/ Upstream
    \/ Complete \/ Break \/ BreakForGood
    \/ RepairTools \/ ContinueText \/ RecoveryFails

Spec == Init /\ [][Next]_vars

\* Every wait for upstream ends, with an answer or a time-out.
FairSpec ==
    /\ Spec
    /\ WF_vars(Open \/ OpenFails)
    /\ WF_vars(Complete \/ Break \/ BreakForGood)
    /\ WF_vars(RepairTools \/ ContinueText \/ RecoveryFails)

-----------------------------------------------------------------------------
Is(k, event, index) == sent[k].event = event /\ sent[k].index = index

\* What assert_anthropic_stream_contract (stream_contracts.py:115-159) asks of
\* the blocks: an index is used by one block and a delta or a stop has its
\* block open, whatever overlaps, is dropped, closed and started again on the
\* way (native_sse_block_policy.py:188-311) and however the stream is mended.
\* The deltas that repair a tool are left out: append_tool_repair_suffix
\* (emitted_sse_tracker.py:262-279) sends them also to a block that was closed.
BlocksWellFormed ==
    \A k \in DOMAIN sent :
        /\ sent[k].event = "start" =>
              \A j \in 1..k - 1 : ~Is(j, "start", sent[k].index)
        /\ sent[k].event \in {"delta", "stop"} =>
              \E j \in 1..k - 1 : Is(j, "start", sent[k].index) /\ sent[j].block = sent[k].block
        /\ sent[k].event = "stop" \/ (sent[k].event = "delta" /\ ~sent[k].repair) =>
              \A j \in 1..k - 1 : ~Is(j, "stop", sent[k].index)

\* When the stream has ended every block the client saw start was stopped, and
\* message_stop was sent (stream_contracts.py:109, 161): also when upstream's own
\* stops were suppressed (native_sse_block_policy.py:129-150, 291-311).
AllClosedAtEnd ==
    phase = "ended" =>
        /\ \E k \in DOMAIN sent : sent[k].event = "message_stop"
        /\ \A k \in DOMAIN sent :
              sent[k].event = "start" => \E j \in DOMAIN sent : Is(j, "stop", sent[k].index)

\* A client never receives events of two attempts (stream_recovery.py:51,
\* anthropic_messages.py:622-650).
SentOfOneAttempt == \A j, k \in DOMAIN sent : sent[j].attempt = sent[k].attempt

\* Every delta upstream sent, but for thinking that is switched off, reaches the
\* client or waits in the hold-back: none is lost where blocks overlap, lack
\* their start or were closed early (native_sse_block_policy.py:213-289), nor at
\* the end of the stream (anthropic_messages.py:608-611, 680-723).
NoDeltaLost ==
    Cardinality({k \in DOMAIN Emitted : Emitted[k].event = "delta"}) >= deltas

\* Switched off, no thinking reaches the client, from the answer or from what
\* mends it (native_sse_block_policy.py:121-126, anthropic_messages.py:393-410).
ThinkingStaysOff ==
    \A k \in DOMAIN Emitted : Emitted[k].block = "thinking" => thinking

\* The client hears the end of every message.
NativeStreamEnds == <>(phase = "ended")

\* The same for the native transport: however many attempts and repairs, every
\* block is whole, nothing that was shown is lost and what was not asked for is
\* not shown (anthropic_messages.py: stream_response).
NativeStreamIsWhole ==
    /\ TypeOK /\ BlocksWellFormed /\ AllClosedAtEnd
    /\ NoDeltaLost /\ ThinkingStaysOff /\ SentOfOneAttempt
=============================================================================

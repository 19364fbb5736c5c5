------------------------------ MODULE ToolText ------------------------------
(***************************************************************************)
(* HeuristicToolParser (core/anthropic/tools.py): tool calls that a model  *)
(* writes into its text, found while the text arrives in chunks.  What the *)
(* model writes is a sequence of segments; on the way it is a sequence of  *)
(* pieces, a tag being cut wherever the parser could tell the difference.  *)
(* The parser works on positions in that sequence, so that each piece can  *)
(* be followed to the client.                                              *)
(***************************************************************************)
EXTENDS Naturals, SequencesExt

CONSTANTS Answer,    \* what the model may write
          Cut,       \* how many pieces a chunk may have
          Patience   \* pieces a bullet may be followed by (100 characters)

\* A tag as the pieces it may be cut into; a bullet and a blank are one.
FunctionTag == <<"<func", "tion=f>">>
ParameterTag == <<"<para", "meter=", "p>">>
ClosingTag == <<"</para", "meter>">>
ControlToken == <<"<|", "end|>">>
WebCall == <<"WebFetch", "{url}">>

Argument(gap) == ParameterTag \o <<"v">> \o ClosingTag \o IF gap THEN <<" ">> ELSE <<>>

\* How a segment is written: words, an item of a list, or a call with some
\* arguments that may have a blank after each tag.
Written(segment) ==
    CASE segment.kind = "say" -> <<"x">>
      [] segment.kind = "item" -> <<"*", "x">>
      [] segment.kind = "control" -> ControlToken
      [] segment.kind = "web" -> WebCall
      [] segment.kind = "call" ->
            <<"*", " ">> \o FunctionTag \o (IF segment.gap THEN <<" ">> ELSE <<>>)
                \o FlattenSeq([i \in 1..segment.arguments |-> Argument(segment.gap)])

VARIABLES segments, \* what the model writes
          fed,      \* how many of its pieces have arrived
          parser,   \* the parser, with what it returned so far
          flushed   \* the stream is over

toolTextVars == <<segments, fed, parser, flushed>>

Pieces == FlattenSeq([i \in 1..Len(segments) |-> Written(segments[i])])

Read(buffer) == [i \in 1..Len(buffer) |-> Pieces[buffer[i]]]

\* Where a tag begins in a buffer from a place on, or 0.
Find(tag, buffer, from) ==
    LET text == Read(buffer)
        At == {i \in from..(Len(text) - Len(tag) + 1) :
                    SubSeq(text, i, i + Len(tag) - 1) = tag}
    IN  IF At = {} THEN 0 ELSE CHOOSE i \in At : \A j \in At : i <= j

From(buffer, i) == SubSeq(buffer, i, Len(buffer))

Before(buffer, i) == SubSeq(buffer, 1, i - 1)

NewParser ==
    [mode |-> "text", buffer |-> <<>>, shown |-> <<>>, call |-> <<>>, calls |-> <<>>]

\* _strip_control_tokens
RECURSIVE Stripped(_)
Stripped(buffer) ==
    LET i == Find(ControlToken, buffer, 1)
    IN  IF i = 0 THEN buffer ELSE Stripped(Before(buffer, i) \o From(buffer, i + 2))

\* _extract_web_tool_json_calls takes the whole buffer for what it finds.
WithoutWebCalls(p) ==
    LET i == Find(<<"WebFetch">>, p.buffer, 1)
    IN  IF i # 0 /\ Find(<<"{url}">>, p.buffer, i) # 0
        THEN [p EXCEPT !.buffer = <<>>, !.calls = Append(@, <<>>)]
        ELSE p

\* _FUNC_START_PATTERN: where a call's opening ends, or 0.
CallOpens(buffer) ==
    LET tag == Find(FunctionTag, buffer, 1)
        blanks == {i \in 1..(tag - 1) : \A j \in (i + 1)..(tag - 1) : Read(buffer)[j] = " "}
    IN  IF tag # 0 /\ \E i \in blanks : Read(buffer)[i] = "*" THEN tag + 1 ELSE 0

\* Arguments that are complete; what stands before their tag is shown.
RECURSIVE WithArguments(_)
WithArguments(p) ==
    LET i == Find(ParameterTag, p.buffer, 1)
        j == Find(ClosingTag, p.buffer, i + 3)
    IN  IF i = 0 \/ j = 0 THEN p
        ELSE WithArguments([p EXCEPT !.shown = @ \o Before(p.buffer, i),
                                     !.call = Append(@, SubSeq(p.buffer, i + 3, j - 1)),
                                     !.buffer = From(@, j + 2)])

\* A slip that looks at the buffer as it is, so that half a tag behind a call's
\* opening counts as text.
TagComes_Whole(buffer) == Find(ParameterTag, buffer, 1) = 1

\* A tag may still be coming: strip().startswith("<").
TagComes(buffer) ==
    LET text == SelectSeq(Read(buffer), LAMBDA x : x # " ")
    IN  text # <<>> /\ text[1] \in {"<func", "<para", "</para", "<|"}

\* What follows the arguments ends the call, whether it was awaited or not.
CallEnds(p) ==
    \/ Find(<<"*">>, p.buffer, 1) # 0
    \/ /\ p.buffer # <<>> /\ ~TagComes(p.buffer)
       /\ Find(<<"<para", "meter=">>, p.buffer, 1) = 0

\* The loop of feed.
RECURSIVE Parsed(_)
Parsed(p) ==
    LET bullet == Find(<<"*">>, p.buffer, 1)
        opened == CallOpens(p.buffer)
        tail == Find(<<"<|">>, p.buffer, 1)
        q == WithArguments(p)
        next == Find(<<"*">>, q.buffer, 1)
        rest == IF next = 0 THEN Len(q.buffer) + 1 ELSE next
    IN  CASE p.mode = "text" /\ bullet # 0 ->
                Parsed([p EXCEPT !.mode = "matching", !.shown = @ \o Before(p.buffer, bullet),
                                 !.buffer = From(@, bullet)])
          [] p.mode = "text" /\ bullet = 0 ->
                \* The start of a control token is held back, unless nothing precedes it.
                IF tail > 1
                THEN [p EXCEPT !.shown = @ \o Before(p.buffer, tail), !.buffer = From(@, tail)]
                ELSE [p EXCEPT !.shown = @ \o p.buffer, !.buffer = <<>>]
          [] p.mode = "matching" /\ opened # 0 ->
                Parsed([p EXCEPT !.mode = "arguments", !.call = <<>>,
                                 !.buffer = From(@, opened + 1)])
          [] p.mode = "matching" /\ opened = 0 /\ Len(p.buffer) > Patience ->
                Parsed([p EXCEPT !.mode = "text", !.shown = Append(@, Head(p.buffer)),
                                 !.buffer = Tail(@)])
          [] p.mode = "arguments" /\ CallEnds(q) ->
                Parsed([q EXCEPT !.mode = "text", !.calls = Append(@, q.call),
                                 !.shown = @ \o Before(q.buffer, rest),
                                 !.buffer = From(@, rest)])
          [] p.mode = "arguments" /\ ~CallEnds(q) -> q
          [] OTHER -> p

ToolTextInit ==
    /\ segments \in Answer
    /\ fed = 0
    /\ parser = NewParser
    /\ flushed = FALSE

\* feed
FeedTools(n) ==
    /\ fed + n <= Len(Pieces)
    /\ fed' = fed + n
    /\ LET p == [parser EXCEPT !.buffer = Stripped(@ \o [i \in 1..n |-> fed + i])]
       IN  parser' = Parsed(WithoutWebCalls(p))
    /\ UNCHANGED <<segments, flushed>>

\* flush: a call that was begun is returned with what there is of its last
\* argument; text that is still held is not.
FlushToolText ==
    /\ fed = Len(Pieces) /\ ~flushed
    /\ flushed' = TRUE
    /\ LET left == Stripped(parser.buffer)
           i == Find(ParameterTag, left, 1)
           call == IF i = 0 THEN parser.call ELSE Append(parser.call, From(left, i + 3))
       IN  parser' = IF parser.mode = "arguments"
                     THEN [parser EXCEPT !.mode = "text", !.buffer = <<>>,
                                         !.calls = Append(@, call)]
                     ELSE [parser EXCEPT !.buffer = left]
    /\ UNCHANGED <<segments, fed>>

ToolTextNext ==
    \/ \E n \in Cut : FeedTools(n)
    \/ FlushToolText

(***************************************************************************)
(* The properties.                                                         *)
(***************************************************************************)

Ascending(s) == \A i, j \in 1..Len(s) : i < j => s[i] < s[j]

Calls == SelectSeq(segments, LAMBDA g : g.kind = "call")

\* Calls that are written without a gap are found, each with its arguments
\* and nothing else, and the words around them are shown.
CallsFound ==
    /\ Len(parser.calls) = Len(Calls)
    /\ \A i \in 1..Len(Calls) :
         [j \in 1..Len(parser.calls[i]) |-> Read(parser.calls[i][j])]
            = [j \in 1..Calls[i].arguments |-> <<"v">>]

WordsShown == {i \in 1..Len(Pieces) : Pieces[i] # " " /\ i \in ToSet(parser.shown)}
                = {i \in 1..Len(Pieces) : Pieces[i] = "x"}

IsPlain == \A i \in 1..Len(segments) :
    segments[i].kind = "say" \/ (segments[i].kind = "call" /\ ~segments[i].gap)

\* Wherever the provider cuts its text, a piece of it reaches the client at
\* most once and in its place, as text or in one argument; and calls whose
\* tags adjoin are found whole, with the words around them shown
\* (tools.py:24 "Stateful parser for raw text tool calls").
TextIsParsedOnce ==
    LET arguments == FlattenSeq(FlattenSeq(parser.calls))
    IN  /\ Ascending(parser.shown) /\ Ascending(arguments)
        /\ ToSet(parser.shown) \cap ToSet(arguments) = {}
        /\ flushed /\ IsPlain => CallsFound /\ WordsShown

\* A call is found with its arguments also when text stands between its tags
\* (tests/providers/test_parsers.py:253), and wherever the stream is cut
\* (line 217: "Failed split at").  A blank that arrives by itself, or before
\* half a tag, ends the call.
CutsLoseNoArgument == flushed => CallsFound
=============================================================================

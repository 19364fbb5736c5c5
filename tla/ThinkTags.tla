------------------------------ MODULE ThinkTags ------------------------------
(***************************************************************************)
(* core/anthropic/thinking.py: the parser that takes <think> ... </think>  *)
(* out of a stream of text.  A tag may be cut anywhere between two chunks, *)
(* so the parser keeps the end of its buffer that may be the beginning of  *)
(* one.  The name of the tag is one character here, "t", which also stands *)
(* for all ordinary text.                                                  *)
(***************************************************************************)
EXTENDS Integers, Sequences, SequencesExt

CONSTANTS
    FedMax,    \* characters of a stream
    ChunkSize  \* the sizes its chunks may have

ASSUME ThinkTagsAssumption == FedMax \in Nat /\ ChunkSize \subseteq Nat \ {0}

Character == {"<", "/", "t", ">"}

OPEN_TAG == <<"<", "t", ">">>

CLOSE_TAG == <<"<", "/", "t", ">">>

VARIABLES
    fed,      \* everything fed so far
    buffer,   \* _buffer
    in_think, \* _in_think_tag
    parsed    \* what was yielded: characters, each text or thinking

thinkVars == <<fed, buffer, in_think, parsed>>

Kind(thinking) == IF thinking THEN "thinking" ELSE "text"

Marked(s, thinking) == [i \in DOMAIN s |-> <<s[i], Kind(thinking)>>]

\* find: the first place of the tag, 0 when there is none.
At(s, tag, i) == i + Len(tag) - 1 <= Len(s) /\ SubSeq(s, i, i + Len(tag) - 1) = tag

Find(s, tag) ==
    IF \E i \in DOMAIN s : At(s, tag, i)
    THEN CHOOSE i \in DOMAIN s : At(s, tag, i) /\ \A j \in 1..(i - 1) : ~At(s, tag, j)
    ELSE 0

From(s, i) == SubSeq(s, i, Len(s))

\* rfind("<"): the end of the buffer from its last bracket on.
LastBracket(s) == SelectLastInSeq(s, LAMBDA c : c = "<")

IsBegun(s, tag) == Len(s) < Len(tag) /\ IsPrefix(s, tag)

\* Where the part of the buffer begins that cannot be judged yet, one past its
\* end when there is none: inside a thought only the closing tag can begin.
Undecided_OpenOnly(s, thinking) ==
    LET i == LastBracket(s)
    IN  IF i # 0 /\ IsBegun(From(s, i), IF thinking THEN CLOSE_TAG ELSE OPEN_TAG)
        THEN i ELSE Len(s) + 1

Undecided(s, thinking) ==
    LET i == LastBracket(s)
        tags == IF thinking THEN {CLOSE_TAG} ELSE {OPEN_TAG, CLOSE_TAG}
    IN  IF i # 0 /\ \E tag \in tags : IsBegun(From(s, i), tag) THEN i ELSE Len(s) + 1

\* The loop of feed with _parse_outside_think and _parse_inside_think: up to
\* the next tag, which is dropped (outside a thought a stray closing tag too),
\* until no whole tag is left.
RECURSIVE Parse(_, _, _)
Parse(s, thinking, out) ==
    LET closing == Find(s, CLOSE_TAG)
        opening == IF thinking THEN 0 ELSE Find(s, OPEN_TAG)
        keep == Undecided(s, thinking)
    IN  IF closing # 0 /\ (opening = 0 \/ closing < opening)
        THEN Parse(From(s, closing + Len(CLOSE_TAG)), FALSE,
                   out \o Marked(SubSeq(s, 1, closing - 1), thinking))
        ELSE IF opening # 0
        THEN Parse(From(s, opening + Len(OPEN_TAG)), TRUE,
                   out \o Marked(SubSeq(s, 1, opening - 1), thinking))
        ELSE [buffer |-> From(s, keep), in_think |-> thinking,
              parsed |-> out \o Marked(SubSeq(s, 1, keep - 1), thinking)]

ThinkInit ==
    /\ fed = <<>>
    /\ buffer = <<>>
    /\ in_think = FALSE
    /\ parsed = <<>>

Feed(chunk) ==
    LET after == Parse(buffer \o chunk, in_think, parsed)
    IN  /\ Len(fed) + Len(chunk) <= FedMax
        /\ fed' = fed \o chunk
        /\ buffer' = after.buffer
        /\ in_think' = after.in_think
        /\ parsed' = after.parsed

ThinkNext == \E n \in ChunkSize : \E chunk \in [1..n -> Character] : Feed(chunk)

(***************************************************************************)
(* The property.                                                           *)
(***************************************************************************)

\* A stream read from its beginning, one character or one tag at a time.
RECURSIVE Read(_, _)
Read(s, thinking) ==
    IF s = <<>> THEN <<>>
    ELSE IF At(s, CLOSE_TAG, 1) THEN Read(From(s, 1 + Len(CLOSE_TAG)), FALSE)
    ELSE IF ~thinking /\ At(s, OPEN_TAG, 1) THEN Read(From(s, 1 + Len(OPEN_TAG)), TRUE)
    ELSE <<<<s[1], Kind(thinking)>>>> \o Read(Tail(s), thinking)

\* What has been parsed by the time flush has given out the buffer, too.
Flushed == parsed \o Marked(buffer, in_think)

\* However the provider cuts the stream, the parser yields what reading it in
\* one piece would, and a stream that ends now is completed by flush: no
\* character is lost, moved or taken for thinking because of a cut
\* (thinking.py:28 "Handles partial tags at chunk boundaries by buffering").
CutsDoNotMatter == Flushed = Read(fed, FALSE)
=============================================================================

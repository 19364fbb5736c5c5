------------------------------ MODULE Recovery ------------------------------
(***************************************************************************)
(* How a broken answer is mended (core/anthropic/stream_recovery.py): what *)
(* the model is asked for when a stream breaks off inside a text or inside *)
(* a tool's arguments, and what of its reply is appended to what the       *)
(* client already has.  Nothing that was emitted can be taken back, so a   *)
(* repair only ever appends.  A text is a sequence of letters; arguments   *)
(* are a sequence of pieces of JSON.                                       *)
(***************************************************************************)
EXTENDS Naturals, SequencesExt

CONSTANTS Letter,     \* letters of a text
          TextMax,    \* bound: how long a text gets
          Standalone, \* replies shorter than this are appended (200 characters)
          Piece,      \* pieces of JSON
          WholeObject \* arguments that are an object the tool's schema accepts

ASSUME RecoveryAssumption ==
    /\ TextMax \in Nat /\ Standalone \in Nat
    /\ "rejected" \notin Piece \* None is no text
    /\ WholeObject \subseteq Seq(Piece)
    /\ \A object \in WholeObject : object # <<>> /\ "blank" \notin {Head(object), Last(object)}

Rejected == <<"rejected">>  \* Python's None

VARIABLES broken,  \* "text" or "tool": where the stream broke off
          emitted, \* what the client has of it
          asked,   \* the body of the recovery request
          reply,   \* what the model answers
          suffix   \* what is appended for it

recoveryVars == <<broken, emitted, asked, reply, suffix>>

Rest(s, n) == SubSeq(s, n + 1, Len(s))

Half(n) == n \div 2

\* A slip that is content with the first overlap it finds.
Overlap_Any(existing, candidate) ==
    LET sizes == {n \in 1..Len(candidate) : IsSuffix(SubSeq(candidate, 1, n), existing)}
    IN  IF sizes = {} THEN 0 ELSE CHOOSE n \in sizes : \A k \in sizes : n <= k

\* How much of the reply's beginning the text ends with.
Overlap(existing, candidate) ==
    LET sizes == {n \in 1..Len(candidate) : IsSuffix(SubSeq(candidate, 1, n), existing)}
    IN  IF sizes = {} THEN 0 ELSE CHOOSE n \in sizes : \A k \in sizes : n >= k

ContinuationSuffix(existing, candidate) ==
    LET n == Overlap(existing, candidate)
        limit == IF Half(Len(existing)) > Standalone THEN Half(Len(existing)) ELSE Standalone
    IN  IF IsPrefix(existing, candidate) THEN Rest(candidate, Len(existing))
        ELSE IF n > 0 \/ Len(candidate) < limit THEN Rest(candidate, n)
        ELSE Rejected

\* strip(): blanks at both ends are dropped.
Trimmed(s) ==
    LET solid == {i \in 1..Len(s) : s[i] # "blank"}
    IN  IF solid = {} THEN <<>>
        ELSE SubSeq(s, CHOOSE i \in solid : \A j \in solid : i <= j,
                       CHOOSE i \in solid : \A j \in solid : i >= j)

\* The lines between two fences, or behind an opening one.
Unfenced(s) ==
    IF s # <<>> /\ Head(s) = "fence"
    THEN Trimmed(IF Last(s) = "fence" THEN SubSeq(s, 2, Len(s) - 1) ELSE Tail(s))
    ELSE s

RepairSuffixCandidates(prefix, candidate) ==
    LET raw == Unfenced(Trimmed(candidate))
    IN  IF Trimmed(candidate) = <<>> THEN <<>>
        ELSE IF IsPrefix(prefix, raw) THEN <<raw, Rest(raw, Len(prefix))>>
        ELSE <<raw>>

\* accept_tool_json_repair: the first candidate that completes the object.
Accepted(prefix, candidate) ==
    LET candidates == RepairSuffixCandidates(prefix, candidate)
        fits == {i \in DOMAIN candidates : prefix \o candidates[i] \in WholeObject}
    IN  IF fits = {} THEN Rejected
        ELSE candidates[CHOOSE i \in fits : \A j \in fits : i <= j]

\* The recovery request asks for text only, after what was emitted of a text;
\* the arguments of a tool are quoted in the question itself.
RecoveryBody(partial) ==
    [tools |-> {}, messages |-> <<"conversation">>
        \o (IF partial # <<>> THEN <<"partial">> ELSE <<>>) \o <<"question">>]

RepairBody == [tools |-> {}, messages |-> <<"conversation", "question">>]

Fence(s) == <<"fence">> \o s \o <<"fence">>

\* What models answer when arguments are missing: the missing part or the
\* whole object, as it is, fenced, with blanks around it, or unusable text.
Replies(prefix) ==
    LET objects == {o \in WholeObject : IsPrefix(prefix, o)}
        plain == objects \cup {Rest(o, Len(prefix)) : o \in objects}
    IN  plain \cup {Fence(s) : s \in plain} \cup {<<"blank">> \o s : s \in plain}
            \cup {<<>>, <<"blank">>, <<"fence">>, <<"x">>}

RecoveryInit ==
    /\ broken \in {"text", "tool"}
    /\ IF broken = "text" \* complete arguments need no repair
       THEN emitted \in UNION {[1..n -> Letter] : n \in 0..TextMax}
       ELSE emitted \in UNION {Prefixes(o) : o \in WholeObject} \ WholeObject
    /\ asked = <<>>
    /\ reply = <<>>
    /\ suffix = <<>>

AskForRest ==
    /\ asked = <<>>
    /\ asked' = IF broken = "text" THEN <<RecoveryBody(emitted)>> ELSE <<RepairBody>>
    /\ UNCHANGED <<broken, emitted, reply, suffix>>

\* What is collected of the reply, and what of it is appended.
MendText ==
    /\ broken = "text" /\ asked # <<>> /\ reply = <<>>
    /\ reply' \in UNION {[1..n -> Letter] : n \in 0..TextMax}
    /\ suffix' = ContinuationSuffix(emitted, reply')
    /\ UNCHANGED <<broken, emitted, asked>>

MendTool ==
    /\ broken = "tool" /\ asked # <<>> /\ reply = <<>>
    /\ reply' \in Replies(emitted)
    /\ suffix' = Accepted(emitted, reply')
    /\ UNCHANGED <<broken, emitted, asked>>

RecoveryNext == AskForRest \/ MendText \/ MendTool

(***************************************************************************)
(* The property.                                                           *)
(***************************************************************************)

\* A reply that gives the missing part of arguments or the whole object,
\* fenced or not.  (What begins or ends with a blank may lose one that belongs
\* to the arguments, and what begins like a fence its first piece: the code
\* cannot tell.)
Helpful == reply \in {r \in Replies(emitted) : \E o \in WholeObject :
    \E s \in {o, Rest(o, Len(emitted))} :
        /\ IsPrefix(emitted, o) /\ s # <<>>
        /\ Head(s) \notin {"blank", "fence"} /\ Last(s) # "blank"
        /\ r \in {s, Fence(s), <<"blank">> \o s}}

\* A text goes on with what is new in the reply: the client has read the whole
\* reply and not a letter of it twice (stream_recovery.py:203 "Return only the
\* new suffix"); arguments become an object that the schema accepts, and do so
\* whenever the reply helps (line 192 "Accept only append-only JSON repairs").
MendedOnce ==
    LET mended == emitted \o suffix
    IN  /\ broken = "text" /\ asked # <<>> /\ suffix # Rejected /\ reply # <<>>
            => /\ IsSuffix(reply, mended)
               /\ \A n \in 0..(Len(suffix) - 1) :
                    ~IsSuffix(reply, emitted \o Rest(reply, Len(reply) - n))
        /\ broken = "tool" /\ reply # <<>> /\ suffix # Rejected => mended \in WholeObject
        /\ broken = "tool" /\ Helpful => suffix # Rejected
=============================================================================

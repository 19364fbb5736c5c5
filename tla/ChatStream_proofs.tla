------------------------- MODULE ChatStream_proofs -------------------------
(***************************************************************************)
(* Proofs about the OpenAI transport: whatever upstream sends, wherever    *)
(* it breaks off and however it is mended, what the client receives is     *)
(* well formed at every moment, of one attempt, and whole at its end.      *)
(*                                                                         *)
(* The proofs follow what went out or is held as a journal.  The builder   *)
(* knows which of its blocks are open; the journal says the same: these    *)
(* have their start and no stop, all others have both.  Each operation of  *)
(* the builder keeps that, and the end of a message leaves no block open.  *)
(***************************************************************************)
EXTENDS ChatStream, Recovery, Queues_proofs

Block == {"text", "thinking", "tool_use"}

\* The end of a message has its reason where others have their kind of block.
EventKind == {"start", "delta", "stop", "error", "message_delta", "message_stop"}
BlockKind == Block \cup {"", "end_turn", "finished"}

EventSet == [event : EventKind, index : Int, block : BlockKind, attempt : Nat]

-----------------------------------------------------------------------------
(* Journals *)

StartAt(L, k, i) == L[k].event = "start" /\ L[k].index = i
StopAt(L, k, i) == L[k].event = "stop" /\ L[k].index = i

\* Block i was started as a block of kind c and not stopped; it was stopped.
OpenIn(L, i, c) ==
    /\ \E k \in 1..Len(L) : StartAt(L, k, i) /\ L[k].block = c
    /\ \A k \in 1..Len(L) : ~StopAt(L, k, i)
StoppedIn(L, i) == \E k \in 1..Len(L) : StopAt(L, k, i)

\* The k-th event is in its place.
InPlace(L, k) ==
    /\ L[k].event = "start" => \A j \in 1..k - 1 : ~StartAt(L, j, L[k].index)
    /\ L[k].event \in {"delta", "stop"} =>
          /\ \E j \in 1..k - 1 : StartAt(L, j, L[k].index) /\ L[j].block = L[k].block
          /\ \A j \in 1..k - 1 : ~StopAt(L, j, L[k].index)

\* The events of the blocks 0, ..., n - 1 in an attempt.
Journal(L, n, a) ==
    /\ L \in Seq(EventSet)
    /\ \A k \in 1..Len(L) :
          /\ L[k].event \in {"start", "delta", "stop"} /\ L[k].attempt = a
          /\ L[k].index \in 0..n - 1
          /\ InPlace(L, k)
    /\ \A i \in 0..n - 1 : \E k \in 1..Len(L) : StartAt(L, k, i)

\* The journal is M after L: what was open or stopped still is.
StaysOpen(L, M, i) == \A c : OpenIn(L, i, c) => OpenIn(M, i, c)
StayStopped(L, M) == \A i : StoppedIn(L, i) => StoppedIn(M, i)

\* An event at the end of a sequence leaves the others in their places.
LEMMA Appended ==
    ASSUME NEW L \in Seq(EventSet), NEW e \in EventSet
    PROVE  LET M == Append(L, e)
           IN  /\ M \in Seq(EventSet) /\ Len(L) \in Nat /\ Len(M) = Len(L) + 1
               /\ \A k \in 1..Len(L) : M[k] = L[k]
               /\ M[Len(L) + 1] = e
               /\ \A k \in 1..Len(L) : InPlace(L, k) => InPlace(M, k)
<1> DEFINE M == Append(L, e)
<1>1. /\ M \in Seq(EventSet) /\ Len(L) \in Nat /\ Len(M) = Len(L) + 1
      /\ \A k \in 1..Len(L) : M[k] = L[k]
      /\ M[Len(L) + 1] = e
  BY AppendProperties, LenProperties
<1> HIDE DEF M
<1>2. ASSUME NEW k \in 1..Len(L), InPlace(L, k) PROVE InPlace(M, k)
  <2>1. M[k] = L[k] /\ \A j \in 1..k - 1 : M[j] = L[j]
    BY <1>1
  <2> QED
    BY <1>2, <2>1 DEF InPlace, StartAt, StopAt
<1> QED
  BY <1>1, <1>2 DEF M

\* The start of the next block: it is open then, and nothing else changes.
LEMMA JournalStart ==
    ASSUME NEW n \in Nat, NEW a \in Nat, NEW L, Journal(L, n, a), NEW c \in Block,
           NEW e \in EventSet, e.event = "start", e.index = n, e.block = c, e.attempt = a
    PROVE  LET M == Append(L, e)
           IN  /\ Journal(M, n + 1, a) /\ OpenIn(M, n, c)
               /\ \A i : StaysOpen(L, M, i)
               /\ StayStopped(L, M)
<1> DEFINE M == Append(L, e)
<1>1. /\ L \in Seq(EventSet)
      /\ \A k \in 1..Len(L) :
            /\ L[k].event \in {"start", "delta", "stop"} /\ L[k].attempt = a
            /\ L[k].index \in 0..n - 1
            /\ InPlace(L, k)
      /\ \A i \in 0..n - 1 : \E k \in 1..Len(L) : StartAt(L, k, i)
  BY DEF Journal
<1>2. /\ M \in Seq(EventSet) /\ Len(L) \in Nat /\ Len(M) = Len(L) + 1
      /\ \A k \in 1..Len(L) : M[k] = L[k]
      /\ M[Len(L) + 1] = e
      /\ \A k \in 1..Len(L) : InPlace(L, k) => InPlace(M, k)
  BY <1>1, Appended
<1> HIDE DEF M
<1>3. \A k \in 1..Len(M) : k \in 1..Len(L) \/ k = Len(L) + 1
  BY <1>2
<1>4. InPlace(M, Len(L) + 1)
  <2>1. \A j \in 1..(Len(L) + 1) - 1 : ~StartAt(M, j, n)
    <3>1. \A j \in 1..(Len(L) + 1) - 1 : j \in 1..Len(L) /\ M[j] = L[j] /\ L[j].index \in 0..n - 1
      BY <1>1, <1>2
    <3> QED
      BY <3>1 DEF StartAt
  <2> QED
    BY <1>2, <2>1 DEF InPlace
<1>5. Journal(M, n + 1, a)
  <2>1. ASSUME NEW k \in 1..Len(M)
        PROVE  /\ M[k].event \in {"start", "delta", "stop"} /\ M[k].attempt = a
               /\ M[k].index \in 0..n
               /\ InPlace(M, k)
    BY <1>1, <1>2, <1>3, <1>4
  <2>2. ASSUME NEW i \in 0..n PROVE \E k \in 1..Len(M) : StartAt(M, k, i)
    <3>1. CASE i = n
      <4>1. Len(L) + 1 \in 1..Len(M) /\ StartAt(M, Len(L) + 1, n)
        BY <1>2 DEF StartAt
      <4> QED
        BY <3>1, <4>1
    <3>2. CASE i # n
      <4>1. i \in 0..n - 1
        BY <3>2
      <4>2. PICK k \in 1..Len(L) : StartAt(L, k, i)
        BY <1>1, <4>1
      <4>3. k \in 1..Len(M) /\ StartAt(M, k, i)
        BY <1>2, <4>2 DEF StartAt
      <4> QED
        BY <4>3
    <3> QED
      BY <3>1, <3>2
  <2> QED
    BY <1>2, <2>1, <2>2 DEF Journal
<1>6. OpenIn(M, n, c)
  <2>1. ASSUME NEW k \in 1..Len(M) PROVE ~StopAt(M, k, n)
    <3>1. CASE k \in 1..Len(L)
      <4>1. M[k] = L[k] /\ L[k].index \in 0..n - 1
        BY <1>1, <1>2, <3>1
      <4> QED
        BY <4>1 DEF StopAt
    <3>2. CASE k = Len(L) + 1
      BY <1>2, <3>2 DEF StopAt
    <3> QED
      BY <1>3, <3>1, <3>2
  <2>2. StartAt(M, Len(L) + 1, n) /\ M[Len(L) + 1].block = c /\ Len(L) + 1 \in 1..Len(M)
    BY <1>2 DEF StartAt
  <2> QED
    BY <2>1, <2>2 DEF OpenIn
<1>7. \A i : StaysOpen(L, M, i)
  BY <1>2, <1>3 DEF StaysOpen, OpenIn, StartAt, StopAt
<1>8. StayStopped(L, M)
  BY <1>2 DEF StayStopped, StoppedIn, StopAt
<1> QED
  BY <1>5, <1>6, <1>7, <1>8 DEF M

\* A delta of an open block changes nothing; with its stop the others stay open.
LEMMA JournalGoesOn ==
    ASSUME NEW n \in Nat, NEW a \in Nat, NEW L, Journal(L, n, a), NEW i, NEW c, OpenIn(L, i, c),
           NEW e \in EventSet, e.event \in {"delta", "stop"}, e.index = i, e.block = c, e.attempt = a
    PROVE  LET M == Append(L, e)
           IN  /\ Journal(M, n, a)
               /\ \A j : e.event = "delta" \/ j # i => StaysOpen(L, M, j)
               /\ e.event = "stop" => StoppedIn(M, i)
               /\ StayStopped(L, M)
<1> DEFINE M == Append(L, e)
<1>1. /\ L \in Seq(EventSet)
      /\ \A k \in 1..Len(L) :
            /\ L[k].event \in {"start", "delta", "stop"} /\ L[k].attempt = a
            /\ L[k].index \in 0..n - 1
            /\ InPlace(L, k)
      /\ \A j \in 0..n - 1 : \E k \in 1..Len(L) : StartAt(L, k, j)
  BY DEF Journal
<1>2. /\ M \in Seq(EventSet) /\ Len(L) \in Nat /\ Len(M) = Len(L) + 1
      /\ \A k \in 1..Len(L) : M[k] = L[k]
      /\ M[Len(L) + 1] = e
      /\ \A k \in 1..Len(L) : InPlace(L, k) => InPlace(M, k)
  BY <1>1, Appended
<1> HIDE DEF M
<1>3. \A k \in 1..Len(M) : k \in 1..Len(L) \/ k = Len(L) + 1
  BY <1>2
<1>4. PICK s \in 1..Len(L) : StartAt(L, s, i) /\ L[s].block = c
  BY DEF OpenIn
<1>5. \A k \in 1..Len(L) : ~StopAt(L, k, i)
  BY DEF OpenIn
<1>6. InPlace(M, Len(L) + 1)
  <2>1. s \in 1..(Len(L) + 1) - 1 /\ StartAt(M, s, i) /\ M[s].block = c
    BY <1>2, <1>4 DEF StartAt
  <2>2. \A j \in 1..(Len(L) + 1) - 1 : ~StopAt(M, j, i)
    BY <1>2, <1>5 DEF StopAt
  <2> QED
    BY <1>2, <2>1, <2>2 DEF InPlace
<1>7. Journal(M, n, a)
  <2>0. i \in 0..n - 1
    BY <1>1, <1>4 DEF StartAt
  <2>1. ASSUME NEW k \in 1..Len(M)
        PROVE  /\ M[k].event \in {"start", "delta", "stop"} /\ M[k].attempt = a
               /\ M[k].index \in 0..n - 1
               /\ InPlace(M, k)
    BY <1>1, <1>2, <1>3, <1>6, <2>0
  <2>2. ASSUME NEW j \in 0..n - 1 PROVE \E k \in 1..Len(M) : StartAt(M, k, j)
    <3>1. PICK k \in 1..Len(L) : StartAt(L, k, j)
      BY <1>1
    <3>2. k \in 1..Len(M) /\ StartAt(M, k, j)
      BY <1>2, <3>1 DEF StartAt
    <3> QED
      BY <3>2
  <2> QED
    BY <1>2, <2>1, <2>2 DEF Journal
<1>8. e.event = "stop" => StoppedIn(M, i)
  BY <1>2 DEF StoppedIn, StopAt
<1>9. \A j : e.event = "delta" \/ j # i => StaysOpen(L, M, j)
  BY <1>2, <1>3 DEF StaysOpen, OpenIn, StartAt, StopAt
<1>10. StayStopped(L, M)
  BY <1>2 DEF StayStopped, StoppedIn, StopAt
<1> QED
  BY <1>7, <1>8, <1>9, <1>10 DEF M

\* A block that is open is one of the attempt's, and of one kind.
LEMMA OpenBlock ==
    ASSUME NEW n \in Nat, NEW a, NEW L, Journal(L, n, a), NEW i, NEW c, OpenIn(L, i, c)
    PROVE  i \in 0..n - 1 /\ \A d : OpenIn(L, i, d) => c = d
<1>1. PICK k \in 1..Len(L) : StartAt(L, k, i) /\ L[k].block = c
  BY DEF OpenIn
<1>2. i \in 0..n - 1 /\ InPlace(L, k)
  BY <1>1 DEF Journal, StartAt
<1>3. ASSUME NEW d, OpenIn(L, i, d) PROVE c = d
  <2>1. PICK l \in 1..Len(L) : StartAt(L, l, i) /\ L[l].block = d
    BY <1>3 DEF OpenIn
  <2>2. InPlace(L, l)
    BY <2>1 DEF Journal
  <2>3. ~(l < k) /\ ~(k < l)
    <3>1. Len(L) \in Nat
      BY LenProperties DEF Journal
    <3> QED
      BY <1>1, <1>2, <2>1, <2>2, <3>1 DEF InPlace, StartAt
  <2>4. l = k
    BY <2>3, LenProperties DEF Journal
  <2> QED
    BY <1>1, <2>1, <2>4
<1> QED
  BY <1>2, <1>3
-----------------------------------------------------------------------------
(* The builder *)

ToolSet == [block : Int, name : Name, json : Json, buffer : Json, done : BOOLEAN]

Builder == [next : Nat, text : Int, thinking : Int, text_started : BOOLEAN,
            thinking_started : BOOLEAN, tools : Seq(ToolSet), out : Seq(EventSet)]

\* t has the content blocks of s.
SameContent(t, s) ==
    /\ t.text = s.text /\ t.text_started = s.text_started
    /\ t.thinking = s.thinking /\ t.thinking_started = s.thinking_started

\* Block i is open for the builder, as one of kind c.
Opens(s, i, c) ==
    \/ c = "text" /\ s.text_started /\ i = s.text
    \/ c = "thinking" /\ s.thinking_started /\ i = s.thinking
    \/ c = "tool_use" /\ i # None /\ \E j \in 1..Len(s.tools) : s.tools[j].block = i

OpensSame(t, s) == \A i, c : Opens(t, i, c) <=> Opens(s, i, c)

\* The builder's blocks exist; text and thinking are not open together, and each
\* tool has a block of its own.
Shape(s) ==
    /\ s \in Builder
    /\ s.text \in -1..s.next - 1 /\ s.thinking \in -1..s.next - 1
    /\ s.text_started => s.text # None
    /\ s.thinking_started => s.thinking # None
    /\ ~(s.text_started /\ s.thinking_started)
    /\ Len(s.tools) <= ToolMax
    /\ \A j \in 1..Len(s.tools) : s.tools[j].block \in -1..s.next - 1
    /\ \A i, j \in 1..Len(s.tools) :
          s.tools[i].block # None /\ s.tools[i].block = s.tools[j].block => i = j

\* The journal and the builder agree on what is open.
Agrees(s, L, a) ==
    /\ Journal(L, s.next, a)
    /\ \A i, c : Opens(s, i, c) => OpenIn(L, i, c)
    /\ \A i \in 0..s.next - 1 : StoppedIn(L, i) \/ \E c : Opens(s, i, c)

\* After b, the events of s continue the journal.
Keeps(s, b) ==
    /\ Shape(s)
    /\ b \in Seq(EventSet)
    /\ Agrees(s, b \o s.out, early_retries)

LEMMA EventIs ==
    ASSUME early_retries \in Nat, NEW kind \in EventKind, NEW i \in Int, NEW c \in BlockKind
    PROVE  /\ Event(kind, i, c) \in EventSet
           /\ Event(kind, i, c).event = kind /\ Event(kind, i, c).index = i
           /\ Event(kind, i, c).block = c /\ Event(kind, i, c).attempt = early_retries
  BY DEF Event, EventSet

LEMMA PutOut ==
    ASSUME NEW s \in Builder, NEW x \in Seq(EventSet)
    PROVE  LET t == [s EXCEPT !.out = x]
           IN  /\ t \in Builder /\ t.next = s.next /\ SameContent(t, s) /\ t.tools = s.tools
               /\ t.out = x
  BY DEF Builder, SameContent

LEMMA PutTools ==
    ASSUME NEW s \in Builder, NEW x \in Seq(ToolSet)
    PROVE  LET t == [s EXCEPT !.tools = x]
           IN  /\ t \in Builder /\ t.next = s.next /\ SameContent(t, s) /\ t.out = s.out
               /\ t.tools = x
  BY DEF Builder, SameContent

LEMMA EmitIs ==
    ASSUME NEW s \in Builder, NEW e \in EventSet
    PROVE  LET t == Emit(s, e)
           IN  /\ t \in Builder /\ t.next = s.next /\ SameContent(t, s) /\ t.tools = s.tools
               /\ t.out = Append(s.out, e)
<1>1. s.out \in Seq(EventSet)
  BY DEF Builder
<1>2. Append(s.out, e) \in Seq(EventSet)
  BY <1>1, AppendProperties
<1> QED
  BY <1>2, PutOut DEF Emit

LEMMA AllocateIs ==
    ASSUME NEW s \in Builder
    PROVE  LET t == Allocate(s)
           IN  /\ t \in Builder /\ t.next = s.next + 1 /\ SameContent(t, s) /\ t.tools = s.tools
               /\ t.out = s.out
  BY DEF Builder, SameContent, Allocate

LEMMA PutText ==
    ASSUME NEW s \in Builder, NEW x \in Int
    PROVE  LET t == [s EXCEPT !.text = x]
           IN  /\ t \in Builder /\ t.next = s.next /\ t.tools = s.tools /\ t.out = s.out
               /\ t.text = x /\ t.text_started = s.text_started
               /\ t.thinking = s.thinking /\ t.thinking_started = s.thinking_started
  BY DEF Builder

LEMMA PutTextStarted ==
    ASSUME NEW s \in Builder, NEW x \in BOOLEAN
    PROVE  LET t == [s EXCEPT !.text_started = x]
           IN  /\ t \in Builder /\ t.next = s.next /\ t.tools = s.tools /\ t.out = s.out
               /\ t.text = s.text /\ t.text_started = x
               /\ t.thinking = s.thinking /\ t.thinking_started = s.thinking_started
  BY DEF Builder

LEMMA PutThinking ==
    ASSUME NEW s \in Builder, NEW x \in Int
    PROVE  LET t == [s EXCEPT !.thinking = x]
           IN  /\ t \in Builder /\ t.next = s.next /\ t.tools = s.tools /\ t.out = s.out
               /\ t.text = s.text /\ t.text_started = s.text_started
               /\ t.thinking = x /\ t.thinking_started = s.thinking_started
  BY DEF Builder

LEMMA PutThinkingStarted ==
    ASSUME NEW s \in Builder, NEW x \in BOOLEAN
    PROVE  LET t == [s EXCEPT !.thinking_started = x]
           IN  /\ t \in Builder /\ t.next = s.next /\ t.tools = s.tools /\ t.out = s.out
               /\ t.text = s.text /\ t.text_started = s.text_started
               /\ t.thinking = s.thinking /\ t.thinking_started = x
  BY DEF Builder

LEMMA StartTextIs ==
    ASSUME early_retries \in Nat, NEW s \in Builder
    PROVE  LET t == StartText(s)
           IN  /\ t \in Builder /\ t.next = s.next + 1 /\ t.tools = s.tools
               /\ t.text = s.next /\ t.text_started = TRUE
               /\ t.thinking = s.thinking /\ t.thinking_started = s.thinking_started
               /\ t.out = Append(s.out, Event("start", s.next, "text"))
<1> DEFINE e == Event("start", s.next, "text")
           u == Allocate(s)
           v == [u EXCEPT !.text = s.next]
           w == [v EXCEPT !.text_started = TRUE]
<1>1. s.next \in Int /\ e \in EventSet
  <2>1. s.next \in Int
    BY DEF Builder
  <2> QED
    BY <2>1, EventIs DEF EventKind, BlockKind, Block
<1>2. /\ u \in Builder /\ u.next = s.next + 1 /\ SameContent(u, s) /\ u.tools = s.tools
      /\ u.out = s.out
  BY AllocateIs
<1>3. [u EXCEPT !.text = s.next, !.text_started = TRUE] = w
  OBVIOUS
<1>4. StartText(s) = Emit(w, e)
  BY <1>3 DEF StartText
<1> HIDE DEF e, u
<1>5. /\ v \in Builder /\ v.next = u.next /\ v.tools = u.tools /\ v.out = u.out
      /\ v.text = s.next /\ v.text_started = u.text_started
      /\ v.thinking = u.thinking /\ v.thinking_started = u.thinking_started
  BY <1>1, <1>2, PutText
<1> HIDE DEF v
<1>6. /\ w \in Builder /\ w.next = v.next /\ w.tools = v.tools /\ w.out = v.out
      /\ w.text = v.text /\ w.text_started = TRUE
      /\ w.thinking = v.thinking /\ w.thinking_started = v.thinking_started
  BY <1>5, PutTextStarted
<1> HIDE DEF w
<1> QED
  BY <1>1, <1>2, <1>4, <1>5, <1>6, EmitIs DEF SameContent, e

LEMMA StartThinkingIs ==
    ASSUME early_retries \in Nat, NEW s \in Builder
    PROVE  LET t == StartThinking(s)
           IN  /\ t \in Builder /\ t.next = s.next + 1 /\ t.tools = s.tools
               /\ t.text = s.text /\ t.text_started = s.text_started
               /\ t.thinking = s.next /\ t.thinking_started = TRUE
               /\ t.out = Append(s.out, Event("start", s.next, "thinking"))
<1> DEFINE e == Event("start", s.next, "thinking")
           u == Allocate(s)
           v == [u EXCEPT !.thinking = s.next]
           w == [v EXCEPT !.thinking_started = TRUE]
<1>1. s.next \in Int /\ e \in EventSet
  <2>1. s.next \in Int
    BY DEF Builder
  <2> QED
    BY <2>1, EventIs DEF EventKind, BlockKind, Block
<1>2. /\ u \in Builder /\ u.next = s.next + 1 /\ SameContent(u, s) /\ u.tools = s.tools
      /\ u.out = s.out
  BY AllocateIs
<1>3. [u EXCEPT !.thinking = s.next, !.thinking_started = TRUE] = w
  OBVIOUS
<1>4. StartThinking(s) = Emit(w, e)
  BY <1>3 DEF StartThinking
<1> HIDE DEF e, u
<1>5. /\ v \in Builder /\ v.next = u.next /\ v.tools = u.tools /\ v.out = u.out
      /\ v.text = u.text /\ v.text_started = u.text_started
      /\ v.thinking = s.next /\ v.thinking_started = u.thinking_started
  BY <1>1, <1>2, PutThinking
<1> HIDE DEF v
<1>6. /\ w \in Builder /\ w.next = v.next /\ w.tools = v.tools /\ w.out = v.out
      /\ w.text = v.text /\ w.text_started = v.text_started
      /\ w.thinking = v.thinking /\ w.thinking_started = TRUE
  BY <1>5, PutThinkingStarted
<1> HIDE DEF w
<1> QED
  BY <1>1, <1>2, <1>4, <1>5, <1>6, EmitIs DEF SameContent, e

-----------------------------------------------------------------------------
(* What the builder does, in its journal *)

LEMMA AppendAfter ==
    ASSUME NEW b \in Seq(EventSet), NEW L \in Seq(EventSet), NEW e \in EventSet
    PROVE  b \o Append(L, e) = Append(b \o L, e)
<1>1. <<e>> \in Seq(EventSet)
  OBVIOUS
<1>2. (b \o L) \o <<e>> = b \o (L \o <<e>>)
  BY <1>1, ConcatAssociative
<1>3. b \o L \in Seq(EventSet)
  BY ConcatProperties
<1> QED
  BY <1>2, <1>3, AppendIsConcat

LEMMA Associates ==
    ASSUME NEW b \in Seq(EventSet), NEW p \in Seq(EventSet), NEW q \in Seq(EventSet)
    PROVE  (b \o p) \o q = b \o (p \o q) /\ b \o p \in Seq(EventSet) /\ p \o q \in Seq(EventSet)
  BY ConcatAssociative, ConcatProperties

\* What Keeps says, for the journal that goes on.
LEMMA KeptJournal ==
    ASSUME NEW s, NEW b, Keeps(s, b)
    PROVE  /\ s \in Builder /\ s.next \in Nat /\ s.out \in Seq(EventSet) /\ b \in Seq(EventSet)
           /\ Journal(b \o s.out, s.next, early_retries)
           /\ \A i, c : Opens(s, i, c) => OpenIn(b \o s.out, i, c)
           /\ \A i \in 0..s.next - 1 : StoppedIn(b \o s.out, i) \/ \E c : Opens(s, i, c)
           /\ \A e \in EventSet : b \o Append(s.out, e) = Append(b \o s.out, e)
<1>1. s \in Builder /\ b \in Seq(EventSet)
  BY DEF Keeps, Shape
<1>2. s.next \in Nat /\ s.out \in Seq(EventSet)
  BY <1>1 DEF Builder
<1> QED
  BY <1>1, <1>2, AppendAfter DEF Keeps, Agrees

\* A block begins.
LEMMA KeepsStart ==
    ASSUME early_retries \in Nat, NEW s, NEW b, Keeps(s, b), NEW c \in Block,
           NEW t, Shape(t), t.next = s.next + 1, t.out = Append(s.out, Event("start", s.next, c)),
           \A i, d : Opens(t, i, d) <=> Opens(s, i, d) \/ (i = s.next /\ d = c)
    PROVE  Keeps(t, b)
<1> DEFINE e == Event("start", s.next, c)
           L == b \o s.out
           M == Append(L, e)
           n == s.next
<1>1. /\ n \in Nat /\ b \in Seq(EventSet) /\ Journal(L, n, early_retries)
      /\ \A i, d : Opens(s, i, d) => OpenIn(L, i, d)
      /\ \A i \in 0..n - 1 : StoppedIn(L, i) \/ \E d : Opens(s, i, d)
      /\ \A f \in EventSet : b \o Append(s.out, f) = Append(b \o s.out, f)
  BY KeptJournal
<1>2. e \in EventSet /\ e.event = "start" /\ e.index = n /\ e.block = c /\ e.attempt = early_retries
  <2>1. n \in Int
    BY <1>1
  <2>2. "start" \in EventKind /\ c \in BlockKind
    BY DEF EventKind, BlockKind
  <2> QED
    BY ONLY early_retries \in Nat, <2>1, <2>2, EventIs
<1>3. b \o t.out = M
  BY <1>1, <1>2
<1> HIDE DEF e, L, M, n
<1>4. /\ Journal(M, n + 1, early_retries) /\ OpenIn(M, n, c)
      /\ \A i : StaysOpen(L, M, i)
      /\ StayStopped(L, M)
  BY <1>1, <1>2, JournalStart DEF M
<1>5. t.next = n + 1 /\ \A i, d : Opens(t, i, d) <=> Opens(s, i, d) \/ (i = n /\ d = c)
  BY DEF n
<1>6. \A i, d : Opens(t, i, d) => OpenIn(M, i, d)
  BY <1>1, <1>4, <1>5 DEF StaysOpen
<1>7. ASSUME NEW i \in 0..t.next - 1 PROVE StoppedIn(M, i) \/ \E d : Opens(t, i, d)
  <2>1. CASE i = n
    BY <1>5, <2>1
  <2>2. CASE i # n
    <3>1. i \in 0..n - 1
      BY <1>1, <1>5, <2>2
    <3> QED
      BY <1>1, <1>4, <1>5, <3>1 DEF StayStopped
  <2> QED
    BY <2>1, <2>2
<1>8. Agrees(t, M, early_retries)
  BY <1>4, <1>5, <1>6, <1>7 DEF Agrees
<1> QED
  BY <1>1, <1>3, <1>8 DEF Keeps

\* An open block goes on or, for the builder too, ends.
LEMMA KeepsGoingOn ==
    ASSUME early_retries \in Nat, NEW s, NEW b, Keeps(s, b), NEW i, NEW c \in Block, Opens(s, i, c),
           NEW kind \in {"delta", "stop"},
           NEW t, Shape(t), t.next = s.next, t.out = Append(s.out, Event(kind, i, c)),
           kind = "delta" => OpensSame(t, s),
           kind = "stop" => \A j, d : Opens(t, j, d) <=> Opens(s, j, d) /\ ~(j = i /\ d = c)
    PROVE  Keeps(t, b)
<1> DEFINE e == Event(kind, i, c)
           L == b \o s.out
           M == Append(L, e)
           n == s.next
<1>1. /\ n \in Nat /\ b \in Seq(EventSet) /\ Journal(L, n, early_retries)
      /\ \A j, d : Opens(s, j, d) => OpenIn(L, j, d)
      /\ \A j \in 0..n - 1 : StoppedIn(L, j) \/ \E d : Opens(s, j, d)
      /\ \A f \in EventSet : b \o Append(s.out, f) = Append(b \o s.out, f)
  BY KeptJournal
<1>2. OpenIn(L, i, c)
  BY <1>1
<1> HIDE DEF L, M, n
<1>3. i \in 0..n - 1 /\ \A d : Opens(s, i, d) => c = d
  BY <1>1, <1>2, OpenBlock
<1>4. e \in EventSet /\ e.event = kind /\ e.index = i /\ e.block = c /\ e.attempt = early_retries
  <2>1. i \in Int
    BY <1>1, <1>3
  <2>2. kind \in EventKind /\ c \in BlockKind
    BY DEF EventKind, BlockKind
  <2> QED
    BY ONLY early_retries \in Nat, <2>1, <2>2, EventIs
<1>5. b \o t.out = M
  BY <1>1, <1>4 DEF M, L
<1> HIDE DEF e
<1>6. /\ Journal(M, n, early_retries)
      /\ \A j : e.event = "delta" \/ j # i => StaysOpen(L, M, j)
      /\ e.event = "stop" => StoppedIn(M, i)
      /\ StayStopped(L, M)
  BY <1>1, <1>2, <1>4, JournalGoesOn DEF M
<1>7. t.next = n
  BY DEF n
<1>8. ASSUME NEW j, NEW d, Opens(t, j, d) PROVE OpenIn(M, j, d)
  <2>1. Opens(s, j, d) /\ (kind = "delta" \/ j # i)
    BY <1>3, <1>8 DEF OpensSame
  <2> QED
    BY <1>1, <1>4, <1>6, <2>1 DEF StaysOpen
<1>9. ASSUME NEW j \in 0..t.next - 1 PROVE StoppedIn(M, j) \/ \E d : Opens(t, j, d)
  <2>1. StoppedIn(M, j) \/ \E d : Opens(s, j, d)
    BY <1>1, <1>6, <1>7 DEF StayStopped
  <2>2. CASE kind = "delta"
    BY <2>1, <2>2 DEF OpensSame
  <2>3. CASE kind = "stop"
    BY <1>4, <1>6, <2>1, <2>3
  <2> QED
    BY <2>2, <2>3
<1>10. Agrees(t, M, early_retries)
  BY <1>6, <1>7, <1>8, <1>9 DEF Agrees
<1> QED
  BY <1>1, <1>5, <1>10 DEF Keeps

\* Nothing goes out.
LEMMA KeepsStill ==
    ASSUME NEW s, NEW b, Keeps(s, b), NEW t, Shape(t), t.next = s.next, t.out = s.out, OpensSame(t, s)
    PROVE  Keeps(t, b)
<1>1. Agrees(t, b \o t.out, early_retries)
  BY DEF Keeps, Agrees, OpensSame
<1> QED
  BY <1>1 DEF Keeps

\* Text stops, if it was open.
LEMMA KeepsStopText ==
    ASSUME early_retries \in Nat, NEW s, NEW b, Keeps(s, b)
    PROVE  LET t == StopText(s)
           IN  /\ Keeps(t, b) /\ t.next = s.next /\ t.tools = s.tools
               /\ t.text = s.text /\ t.text_started = FALSE
               /\ t.thinking = s.thinking /\ t.thinking_started = s.thinking_started
<1>1. s \in Builder /\ s.text_started \in BOOLEAN /\ s.text \in Int
  BY DEF Keeps, Shape, Builder
<1>2. CASE ~s.text_started
  BY <1>1, <1>2 DEF StopText
<1>3. CASE s.text_started
  <2> DEFINE e == Event("stop", s.text, "text")
             u == [s EXCEPT !.text_started = FALSE]
             t == Emit(u, e)
  <2>1. StopText(s) = t
    BY <1>3 DEF StopText
  <2>2. e \in EventSet
    <3>1. "stop" \in EventKind /\ "text" \in BlockKind
      BY DEF EventKind, BlockKind, Block
    <3> QED
      BY ONLY early_retries \in Nat, <1>1, <3>1, EventIs
  <2> HIDE DEF e
  <2>3. /\ u \in Builder /\ u.next = s.next /\ u.tools = s.tools /\ u.out = s.out
        /\ u.text = s.text /\ u.text_started = FALSE
        /\ u.thinking = s.thinking /\ u.thinking_started = s.thinking_started
    BY <1>1, PutTextStarted
  <2> HIDE DEF u
  <2>4. /\ t \in Builder /\ t.next = s.next /\ t.tools = s.tools /\ t.out = Append(s.out, e)
        /\ t.text = s.text /\ t.text_started = FALSE
        /\ t.thinking = s.thinking /\ t.thinking_started = s.thinking_started
    BY <2>2, <2>3, EmitIs DEF SameContent
  <2> HIDE DEF t
  <2>5. Shape(t)
    BY <2>4 DEF Keeps, Shape
  <2>6. \A j, d : Opens(t, j, d) <=> Opens(s, j, d) /\ ~(j = s.text /\ d = "text")
    BY <2>4 DEF Opens
  <2>7. Opens(s, s.text, "text") /\ "text" \in Block /\ "stop" \in {"delta", "stop"}
    BY <1>3 DEF Opens, Block
  <2>8. t.out = Append(s.out, Event("stop", s.text, "text"))
    BY <2>4 DEF e
  <2>9. Keeps(t, b)
    BY <2>4, <2>5, <2>6, <2>7, <2>8, KeepsGoingOn
  <2> QED
    BY <2>1, <2>4, <2>9
<1> QED
  BY <1>1, <1>2, <1>3

LEMMA KeepsStopThinking ==
    ASSUME early_retries \in Nat, NEW s, NEW b, Keeps(s, b)
    PROVE  LET t == StopThinking(s)
           IN  /\ Keeps(t, b) /\ t.next = s.next /\ t.tools = s.tools
               /\ t.text = s.text /\ t.text_started = s.text_started
               /\ t.thinking = s.thinking /\ t.thinking_started = FALSE
<1>1. s \in Builder /\ s.thinking_started \in BOOLEAN /\ s.thinking \in Int
  BY DEF Keeps, Shape, Builder
<1>2. CASE ~s.thinking_started
  BY <1>1, <1>2 DEF StopThinking
<1>3. CASE s.thinking_started
  <2> DEFINE e == Event("stop", s.thinking, "thinking")
             u == [s EXCEPT !.thinking_started = FALSE]
             t == Emit(u, e)
  <2>1. StopThinking(s) = t
    BY <1>3 DEF StopThinking
  <2>2. e \in EventSet
    <3>1. "stop" \in EventKind /\ "thinking" \in BlockKind
      BY DEF EventKind, BlockKind, Block
    <3> QED
      BY ONLY early_retries \in Nat, <1>1, <3>1, EventIs
  <2> HIDE DEF e
  <2>3. /\ u \in Builder /\ u.next = s.next /\ u.tools = s.tools /\ u.out = s.out
        /\ u.text = s.text /\ u.text_started = s.text_started
        /\ u.thinking = s.thinking /\ u.thinking_started = FALSE
    BY <1>1, PutThinkingStarted
  <2> HIDE DEF u
  <2>4. /\ t \in Builder /\ t.next = s.next /\ t.tools = s.tools /\ t.out = Append(s.out, e)
        /\ t.text = s.text /\ t.text_started = s.text_started
        /\ t.thinking = s.thinking /\ t.thinking_started = FALSE
    BY <2>2, <2>3, EmitIs DEF SameContent
  <2> HIDE DEF t
  <2>5. Shape(t)
    BY <2>4 DEF Keeps, Shape
  <2>6. \A j, d : Opens(t, j, d) <=> Opens(s, j, d) /\ ~(j = s.thinking /\ d = "thinking")
    BY <2>4 DEF Opens
  <2>7. Opens(s, s.thinking, "thinking") /\ "thinking" \in Block /\ "stop" \in {"delta", "stop"}
    BY <1>3 DEF Opens, Block
  <2>8. t.out = Append(s.out, Event("stop", s.thinking, "thinking"))
    BY <2>4 DEF e
  <2>9. Keeps(t, b)
    BY <2>4, <2>5, <2>6, <2>7, <2>8, KeepsGoingOn
  <2> QED
    BY <2>1, <2>4, <2>9
<1> QED
  BY <1>1, <1>2, <1>3

\* Neither text nor thinking is open any more.
LEMMA KeepsCloseContent ==
    ASSUME early_retries \in Nat, NEW s, NEW b, Keeps(s, b)
    PROVE  LET t == CloseContent(s)
           IN  /\ Keeps(t, b) /\ t.next = s.next /\ t.tools = s.tools
               /\ t.text = s.text /\ t.text_started = FALSE
               /\ t.thinking = s.thinking /\ t.thinking_started = FALSE
<1> DEFINE u == StopThinking(s)
           t == StopText(u)
<1>1. /\ Keeps(u, b) /\ u.next = s.next /\ u.tools = s.tools
      /\ u.text = s.text /\ u.text_started = s.text_started
      /\ u.thinking = s.thinking /\ u.thinking_started = FALSE
  BY KeepsStopThinking
<1>2. CloseContent(s) = t
  BY DEF CloseContent
<1> HIDE DEF u
<1>3. /\ Keeps(t, b) /\ t.next = u.next /\ t.tools = u.tools
      /\ t.text = u.text /\ t.text_started = FALSE
      /\ t.thinking = u.thinking /\ t.thinking_started = u.thinking_started
  BY <1>1, KeepsStopText
<1> HIDE DEF t
<1> QED
  BY <1>1, <1>2, <1>3

\* Text or thinking begins, when neither is open.
LEMMA KeepsStartText ==
    ASSUME early_retries \in Nat, NEW s, NEW b, Keeps(s, b), ~s.text_started, ~s.thinking_started
    PROVE  LET t == StartText(s) IN Keeps(t, b) /\ t.tools = s.tools /\ t.text_started = TRUE
<1> DEFINE t == StartText(s)
<1>1. s \in Builder /\ s.next \in Nat /\ s.thinking_started \in BOOLEAN
  BY DEF Keeps, Shape, Builder
<1>2. /\ t \in Builder /\ t.next = s.next + 1 /\ t.tools = s.tools
      /\ t.text = s.next /\ t.text_started = TRUE
      /\ t.thinking = s.thinking /\ t.thinking_started = s.thinking_started
      /\ t.out = Append(s.out, Event("start", s.next, "text"))
  BY <1>1, StartTextIs
<1> HIDE DEF t
<1>3. Shape(t)
  BY <1>1, <1>2 DEF Keeps, Shape, None
<1>4. \A i, d : Opens(t, i, d) <=> Opens(s, i, d) \/ (i = s.next /\ d = "text")
  BY <1>2 DEF Opens
<1>5. "text" \in Block
  BY DEF Block
<1>6. Keeps(t, b)
  BY <1>2, <1>3, <1>4, <1>5, KeepsStart
<1> QED
  BY <1>2, <1>6 DEF t

LEMMA KeepsStartThinking ==
    ASSUME early_retries \in Nat, NEW s, NEW b, Keeps(s, b), ~s.text_started, ~s.thinking_started
    PROVE  LET t == StartThinking(s) IN Keeps(t, b) /\ t.tools = s.tools /\ t.thinking_started = TRUE
<1> DEFINE t == StartThinking(s)
<1>1. s \in Builder /\ s.next \in Nat /\ s.text_started \in BOOLEAN
  BY DEF Keeps, Shape, Builder
<1>2. /\ t \in Builder /\ t.next = s.next + 1 /\ t.tools = s.tools
      /\ t.text = s.text /\ t.text_started = s.text_started
      /\ t.thinking = s.next /\ t.thinking_started = TRUE
      /\ t.out = Append(s.out, Event("start", s.next, "thinking"))
  BY <1>1, StartThinkingIs
<1> HIDE DEF t
<1>3. Shape(t)
  BY <1>1, <1>2 DEF Keeps, Shape, None
<1>4. \A i, d : Opens(t, i, d) <=> Opens(s, i, d) \/ (i = s.next /\ d = "thinking")
  BY <1>2 DEF Opens
<1>5. "thinking" \in Block
  BY DEF Block
<1>6. Keeps(t, b)
  BY <1>2, <1>3, <1>4, <1>5, KeepsStart
<1> QED
  BY <1>2, <1>6 DEF t

\* A block that is open goes on.
LEMMA KeepsDelta ==
    ASSUME early_retries \in Nat, NEW s, NEW b, Keeps(s, b), NEW i \in Int, NEW c \in Block, Opens(s, i, c)
    PROVE  LET t == Emit(s, Event("delta", i, c))
           IN  Keeps(t, b) /\ t.next = s.next /\ SameContent(t, s) /\ t.tools = s.tools
<1> DEFINE e == Event("delta", i, c)
           t == Emit(s, e)
<1>1. s \in Builder
  BY DEF Keeps, Shape
<1>2. e \in EventSet
  <2>1. "delta" \in EventKind /\ c \in BlockKind
    BY DEF EventKind, BlockKind
  <2> QED
    BY ONLY early_retries \in Nat, i \in Int, <2>1, EventIs
<1> HIDE DEF e
<1>3. /\ t \in Builder /\ t.next = s.next /\ SameContent(t, s) /\ t.tools = s.tools
      /\ t.out = Append(s.out, e)
  BY <1>1, <1>2, EmitIs
<1> HIDE DEF t
<1>4. Shape(t)
  BY <1>3 DEF Keeps, Shape, SameContent
<1>5. OpensSame(t, s)
  BY <1>3 DEF OpensSame, Opens, SameContent
<1>6. t.out = Append(s.out, Event("delta", i, c)) /\ "delta" \in {"delta", "stop"} /\ "delta" # "stop"
  BY <1>3 DEF e
<1>7. Keeps(t, b)
  BY <1>3, <1>4, <1>5, <1>6, KeepsGoingOn
<1> QED
  BY <1>3, <1>7 DEF t, e

LEMMA KeepsSay ==
    ASSUME early_retries \in Nat, NEW s, NEW b, Keeps(s, b)
    PROVE  LET t == Say(s) IN Keeps(t, b) /\ t.tools = s.tools /\ t.text_started = TRUE
<1> DEFINE u == StopThinking(s)
           v == EnsureText(s)
<1>1. Keeps(u, b) /\ u.tools = s.tools /\ u.thinking_started = FALSE /\ u.text_started \in BOOLEAN
  <2>1. Keeps(u, b) /\ u.tools = s.tools /\ u.thinking_started = FALSE
    BY KeepsStopThinking
  <2> HIDE DEF u
  <2> QED
    BY <2>1 DEF Keeps, Shape, Builder
<1>2. v = IF u.text_started THEN u ELSE StartText(u)
  BY DEF EnsureText
<1> HIDE DEF u, v
<1>3. Keeps(v, b) /\ v.tools = s.tools /\ v.text_started = TRUE
  <2>1. CASE u.text_started
    BY <1>1, <1>2, <2>1
  <2>2. CASE ~u.text_started
    BY <1>1, <1>2, <2>2, KeepsStartText
  <2> QED
    BY <2>1, <2>2
<1>4. Opens(v, v.text, "text") /\ "text" \in Block /\ v.text \in Int
  BY <1>3 DEF Opens, Block, Keeps, Shape, Builder
<1>5. Say(s) = Emit(v, Event("delta", v.text, "text"))
  BY DEF Say, v
<1> QED
  BY <1>3, <1>4, <1>5, KeepsDelta DEF SameContent

LEMMA KeepsThink ==
    ASSUME early_retries \in Nat, NEW s, NEW b, Keeps(s, b)
    PROVE  LET t == Think(s) IN Keeps(t, b) /\ t.tools = s.tools /\ t.thinking_started = TRUE
<1> DEFINE u == StopText(s)
           v == EnsureThinking(s)
<1>1. Keeps(u, b) /\ u.tools = s.tools /\ u.text_started = FALSE /\ u.thinking_started \in BOOLEAN
  <2>1. Keeps(u, b) /\ u.tools = s.tools /\ u.text_started = FALSE
    BY KeepsStopText
  <2> HIDE DEF u
  <2> QED
    BY <2>1 DEF Keeps, Shape, Builder
<1>2. v = IF u.thinking_started THEN u ELSE StartThinking(u)
  BY DEF EnsureThinking
<1> HIDE DEF u, v
<1>3. Keeps(v, b) /\ v.tools = s.tools /\ v.thinking_started = TRUE
  <2>1. CASE u.thinking_started
    BY <1>1, <1>2, <2>1
  <2>2. CASE ~u.thinking_started
    BY <1>1, <1>2, <2>2, KeepsStartThinking
  <2> QED
    BY <2>1, <2>2
<1>4. Opens(v, v.thinking, "thinking") /\ "thinking" \in Block /\ v.thinking \in Int
  BY <1>3 DEF Opens, Block, Keeps, Shape, Builder
<1>5. Think(s) = Emit(v, Event("delta", v.thinking, "thinking"))
  BY DEF Think, v
<1> QED
  BY <1>3, <1>4, <1>5, KeepsDelta DEF SameContent

\* A block that opens and closes at once leaves the others as they were.
LEMMA KeepsWholeBlock ==
    ASSUME early_retries \in Nat, NEW s, NEW b, Keeps(s, b), NEW c \in Block
    PROVE  LET t == WholeBlock(s, c)
           IN  /\ Keeps(t, b) /\ t.next = s.next + 1 /\ t.tools = s.tools
               /\ OpensSame(t, s)
<1> DEFINE n == s.next
           e1 == Event("start", n, c)
           e2 == Event("delta", n, c)
           e3 == Event("stop", n, c)
           u == Allocate(s)
           v == Emit(u, e1)
           w == Emit(v, e2)
           t == Emit(w, e3)
           L == b \o s.out
           L1 == Append(L, e1)
           L2 == Append(L1, e2)
           L3 == Append(L2, e3)
<1>1. WholeBlock(s, c) = t
  BY DEF WholeBlock
<1>2. /\ s \in Builder /\ n \in Nat /\ b \in Seq(EventSet) /\ s.out \in Seq(EventSet)
      /\ Journal(L, n, early_retries)
      /\ \A i, d : Opens(s, i, d) => OpenIn(L, i, d)
      /\ \A i \in 0..n - 1 : StoppedIn(L, i) \/ \E d : Opens(s, i, d)
  BY KeptJournal
<1>3. /\ n \in Int /\ c \in BlockKind
      /\ "start" \in EventKind /\ "delta" \in EventKind /\ "stop" \in EventKind
  <2>1. n \in Int
    BY <1>2
  <2> QED
    BY <2>1 DEF EventKind, BlockKind
<1>4. /\ e1 \in EventSet /\ e1.event = "start" /\ e1.index = n /\ e1.block = c /\ e1.attempt = early_retries
      /\ e2 \in EventSet /\ e2.event = "delta" /\ e2.index = n /\ e2.block = c /\ e2.attempt = early_retries
      /\ e3 \in EventSet /\ e3.event = "stop" /\ e3.index = n /\ e3.block = c /\ e3.attempt = early_retries
  BY ONLY early_retries \in Nat, <1>3, EventIs
<1> HIDE DEF e1, e2, e3
<1>5. /\ u \in Builder /\ u.next = n + 1 /\ SameContent(u, s) /\ u.tools = s.tools
      /\ u.out = s.out
  BY <1>2, AllocateIs
<1> HIDE DEF u
<1>6. /\ v \in Builder /\ v.next = n + 1 /\ SameContent(v, s) /\ v.tools = s.tools
      /\ v.out = Append(s.out, e1)
  BY <1>4, <1>5, EmitIs DEF SameContent
<1> HIDE DEF v
<1>7. /\ w \in Builder /\ w.next = n + 1 /\ SameContent(w, s) /\ w.tools = s.tools
      /\ w.out = Append(Append(s.out, e1), e2)
  BY <1>4, <1>6, EmitIs DEF SameContent
<1> HIDE DEF w
<1>8. /\ t \in Builder /\ t.next = n + 1 /\ SameContent(t, s) /\ t.tools = s.tools
      /\ t.out = Append(Append(Append(s.out, e1), e2), e3)
  BY <1>4, <1>7, EmitIs DEF SameContent
<1> HIDE DEF t
<1>9. b \o t.out = L3
  <2>1. Append(s.out, e1) \in Seq(EventSet) /\ Append(Append(s.out, e1), e2) \in Seq(EventSet)
    BY <1>2, <1>4, AppendProperties
  <2> QED
    <3>1. b \o Append(s.out, e1) = L1
      BY <1>2, <1>4, AppendAfter
    <3> DEFINE q == Append(s.out, e1)
               r == Append(q, e2)
    <3>2. q \in Seq(EventSet) /\ r \in Seq(EventSet) /\ b \o q = L1 /\ t.out = Append(r, e3)
      BY <1>8, <2>1, <3>1
    <3> HIDE DEF q
    <3>3. b \in Seq(EventSet) /\ e2 \in EventSet /\ e3 \in EventSet
      BY <1>2, <1>4
    <3>4. b \o r = Append(b \o q, e2)
      BY ONLY <3>2, <3>3, AppendAfter, Zenon
    <3>5. b \o r = L2
      BY ONLY <3>2, <3>4
    <3> HIDE DEF r, L2
    <3>6. b \o Append(r, e3) = Append(b \o r, e3)
      BY ONLY <3>2, <3>3, AppendAfter, Zenon
    <3> QED
      BY ONLY <3>2, <3>5, <3>6
<1> HIDE DEF L, L1, L2, L3
<1>10. Shape(t)
  <2>1. t.next = s.next + 1 /\ s.next \in Nat
    BY <1>2, <1>8
  <2>2. SameContent(t, s) /\ t.tools = s.tools /\ t \in Builder
    BY <1>8
  <2> HIDE DEF n
  <2>3. Shape(s)
    BY DEF Keeps
  <2> QED
    <3>1. \A x \in -1..s.next - 1 : x \in -1..t.next - 1
      BY <2>1
    <3> QED
      BY ONLY <2>2, <2>3, <3>1 DEF Shape, SameContent
<1>11. OpensSame(t, s)
  BY <1>8 DEF OpensSame, Opens, SameContent
<1> HIDE DEF n
<1>12. /\ Journal(L1, n + 1, early_retries) /\ OpenIn(L1, n, c)
       /\ \A i : StaysOpen(L, L1, i)
       /\ StayStopped(L, L1)
  BY <1>2, <1>4, JournalStart DEF L1
<1>13. n + 1 \in Nat /\ "delta" \in {"delta", "stop"} /\ "stop" \in {"delta", "stop"}
  BY <1>2
<1>14. /\ Journal(L2, n + 1, early_retries)
       /\ \A i : StaysOpen(L1, L2, i)
       /\ StayStopped(L1, L2)
  BY <1>4, <1>12, <1>13, JournalGoesOn DEF L2
<1>15. OpenIn(L2, n, c)
  BY <1>12, <1>14 DEF StaysOpen
<1>16. /\ Journal(L3, n + 1, early_retries)
       /\ \A i : i # n => StaysOpen(L2, L3, i)
       /\ StoppedIn(L3, n)
       /\ StayStopped(L2, L3)
  BY <1>4, <1>13, <1>14, <1>15, JournalGoesOn DEF L3
<1>17. ASSUME NEW i, NEW d, Opens(t, i, d) PROVE OpenIn(L3, i, d)
  <2>1. OpenIn(L, i, d)
    BY <1>2, <1>11, <1>17 DEF OpensSame
  <2>2. i # n
    <3>1. i \in 0..n - 1
      BY <1>2, <2>1, OpenBlock
    <3> QED
      BY <1>2, <3>1
  <2> QED
    BY <1>12, <1>14, <1>16, <2>1, <2>2 DEF StaysOpen
<1>18. ASSUME NEW i \in 0..t.next - 1 PROVE StoppedIn(L3, i) \/ \E d : Opens(t, i, d)
  <2>1. CASE i = n
    BY <1>16, <2>1
  <2>2. CASE i # n
    <3>1. i \in 0..n - 1
      BY <1>2, <1>8, <2>2
    <3> QED
      BY <1>2, <1>11, <1>12, <1>14, <1>16, <3>1 DEF StayStopped, OpensSame
  <2> QED
    BY <2>1, <2>2
<1>19. Agrees(t, L3, early_retries)
  BY <1>8, <1>16, <1>17, <1>18 DEF Agrees
<1> QED
  BY <1>1, <1>2, <1>8, <1>9, <1>10, <1>11, <1>19 DEF Keeps, n

LEMMA KeepsFoundTool ==
    ASSUME early_retries \in Nat, NEW s, NEW b, Keeps(s, b)
    PROVE  LET t == FoundTool(s) IN Keeps(t, b) /\ t.tools = s.tools
<1> DEFINE u == CloseContent(s)
<1>1. Keeps(u, b) /\ u.tools = s.tools
  BY KeepsCloseContent
<1> HIDE DEF u
<1>2. "tool_use" \in Block
  BY DEF Block
<1> QED
  BY <1>1, <1>2, KeepsWholeBlock DEF FoundTool, u

-----------------------------------------------------------------------------
(* Tool calls *)

\* t differs from s in the names and arguments of tools, and in its events.
SameBlocks(t, s) ==
    /\ t \in Builder /\ t.next = s.next /\ SameContent(t, s)
    /\ Len(t.tools) = Len(s.tools)
    /\ \A j \in 1..Len(s.tools) : t.tools[j].block = s.tools[j].block

LEMMA SameBlocksKeep ==
    ASSUME NEW s, Shape(s), NEW t, SameBlocks(t, s)
    PROVE  Shape(t) /\ OpensSame(t, s)
<1>1. Shape(t)
  BY DEF SameBlocks, Shape, SameContent
<1>2. OpensSame(t, s)
  BY DEF SameBlocks, OpensSame, Opens, SameContent
<1> QED
  BY <1>1, <1>2

LEMMA PutTool ==
    ASSUME NEW s \in Builder, NEW i \in 1..Len(s.tools), NEW x \in ToolSet
    PROVE  LET t == [s EXCEPT !.tools = [s.tools EXCEPT ![i] = x]]
           IN  /\ t \in Builder /\ t.next = s.next /\ SameContent(t, s) /\ t.out = s.out
               /\ Len(t.tools) = Len(s.tools)
               /\ t.tools[i] = x
               /\ \A j \in 1..Len(s.tools) : j # i => t.tools[j] = s.tools[j]
<1> DEFINE q == [s.tools EXCEPT ![i] = x]
<1>1. s.tools \in Seq(ToolSet)
  BY DEF Builder
<1>2. /\ q \in Seq(ToolSet) /\ Len(q) = Len(s.tools) /\ q[i] = x
      /\ \A j \in 1..Len(s.tools) : j # i => q[j] = s.tools[j]
  BY <1>1, ExceptSeq
<1> HIDE DEF q
<1> QED
  BY <1>2, PutTools DEF q

\* Name, arguments and what waits of them leave the block alone.
LEMMA PutInTool ==
    ASSUME NEW s \in Builder, NEW i \in 1..Len(s.tools)
    PROVE  /\ \A x \in Name : LET t == [s EXCEPT !.tools[i].name = x]
                              IN  SameBlocks(t, s) /\ t.out = s.out
           /\ \A x \in Json : LET t == [s EXCEPT !.tools[i].json = x]
                              IN  SameBlocks(t, s) /\ t.out = s.out
           /\ \A x \in Json : LET t == [s EXCEPT !.tools[i].buffer = x]
                              IN  SameBlocks(t, s) /\ t.out = s.out
           /\ \A x \in BOOLEAN : LET t == [s EXCEPT !.tools[i].done = x]
                                 IN  SameBlocks(t, s) /\ t.out = s.out
<1>1. s.tools[i] \in ToolSet
  BY ElementOfSeq DEF Builder
<1> DEFINE Put(x) == [s EXCEPT !.tools = [s.tools EXCEPT ![i] = x]]
<1>2. ASSUME NEW x \in ToolSet, x.block = s.tools[i].block
      PROVE  SameBlocks(Put(x), s) /\ Put(x).out = s.out
  <2>1. /\ Put(x) \in Builder /\ Put(x).next = s.next /\ SameContent(Put(x), s) /\ Put(x).out = s.out
        /\ Len(Put(x).tools) = Len(s.tools)
        /\ Put(x).tools[i] = x
        /\ \A j \in 1..Len(s.tools) : j # i => Put(x).tools[j] = s.tools[j]
    BY PutTool
  <2> HIDE DEF Put
  <2> QED
    BY <1>2, <2>1 DEF SameBlocks
<1>3. ASSUME NEW x \in Name
      PROVE  LET t == [s EXCEPT !.tools[i].name = x] IN SameBlocks(t, s) /\ t.out = s.out
  <2> DEFINE y == [s.tools[i] EXCEPT !.name = x]
  <2>1. y \in ToolSet /\ y.block = s.tools[i].block
    BY <1>1 DEF ToolSet
  <2>2. [s EXCEPT !.tools[i].name = x] = Put(y)
    OBVIOUS
  <2> HIDE DEF y, Put
  <2> QED
    BY <1>2, <2>1, <2>2
<1>4. ASSUME NEW x \in Json
      PROVE  LET t == [s EXCEPT !.tools[i].json = x] IN SameBlocks(t, s) /\ t.out = s.out
  <2> DEFINE y == [s.tools[i] EXCEPT !.json = x]
  <2>1. y \in ToolSet /\ y.block = s.tools[i].block
    BY <1>1 DEF ToolSet
  <2>2. [s EXCEPT !.tools[i].json = x] = Put(y)
    OBVIOUS
  <2> HIDE DEF y, Put
  <2> QED
    BY <1>2, <2>1, <2>2
<1>5. ASSUME NEW x \in Json
      PROVE  LET t == [s EXCEPT !.tools[i].buffer = x] IN SameBlocks(t, s) /\ t.out = s.out
  <2> DEFINE y == [s.tools[i] EXCEPT !.buffer = x]
  <2>1. y \in ToolSet /\ y.block = s.tools[i].block
    BY <1>1 DEF ToolSet
  <2>2. [s EXCEPT !.tools[i].buffer = x] = Put(y)
    OBVIOUS
  <2> HIDE DEF y, Put
  <2> QED
    BY <1>2, <2>1, <2>2
<1>6. ASSUME NEW x \in BOOLEAN
      PROVE  LET t == [s EXCEPT !.tools[i].done = x] IN SameBlocks(t, s) /\ t.out = s.out
  <2> DEFINE y == [s.tools[i] EXCEPT !.done = x]
  <2>1. y \in ToolSet /\ y.block = s.tools[i].block
    BY <1>1 DEF ToolSet
  <2>2. [s EXCEPT !.tools[i].done = x] = Put(y)
    OBVIOUS
  <2> HIDE DEF y, Put
  <2> QED
    BY <1>2, <2>1, <2>2
<1> QED
  BY <1>3, <1>4, <1>5, <1>6

\* A piece of a started tool's arguments goes out.
LEMMA KeepsToolDelta ==
    ASSUME early_retries \in Nat, NEW s, NEW b, Keeps(s, b), NEW i \in 1..Len(s.tools),
           s.tools[i].block # None, NEW json \in Json
    PROVE  Keeps(ToolDelta(s, i, json), b) /\ SameBlocks(ToolDelta(s, i, json), s)
<1> DEFINE u == [s EXCEPT !.tools[i].json = json]
           t == Emit(u, Event("delta", s.tools[i].block, "tool_use"))
<1>1. s \in Builder /\ Shape(s)
  BY DEF Keeps, Shape
<1>2. SameBlocks(u, s) /\ u.out = s.out
  BY <1>1, PutInTool
<1> HIDE DEF u
<1>3. Shape(u) /\ OpensSame(u, s)
  BY <1>1, <1>2, SameBlocksKeep
<1>4. Keeps(u, b)
  BY <1>2, <1>3, KeepsStill DEF SameBlocks
<1>5. Opens(u, s.tools[i].block, "tool_use")
  <2>1. Opens(s, s.tools[i].block, "tool_use")
    BY DEF Opens
  <2> QED
    BY <1>3, <2>1 DEF OpensSame
<1>6. s.tools[i].block \in Int /\ "tool_use" \in Block
  BY <1>1 DEF Shape, Block
<1>7. Keeps(t, b) /\ t.next = u.next /\ SameContent(t, u) /\ t.tools = u.tools
  BY <1>4, <1>5, <1>6, KeepsDelta
<1>8. ToolDelta(s, i, json) = t
  BY DEF ToolDelta, u
<1> HIDE DEF t
<1>9. SameBlocks(t, s)
  BY <1>2, <1>7 DEF SameBlocks, SameContent, Keeps, Shape
<1> QED
  BY <1>7, <1>8, <1>9

LEMMA SameBlocksTwice ==
    ASSUME NEW s, NEW t, NEW u, SameBlocks(t, s), SameBlocks(u, t)
    PROVE  SameBlocks(u, s)
  BY DEF SameBlocks, SameContent

\* Arguments of a started tool go out or wait.
LEMMA KeepsEmitArgs ==
    ASSUME early_retries \in Nat, NEW s, NEW b, Keeps(s, b), NEW i \in 1..Len(s.tools),
           s.tools[i].block # None, NEW json \in Json
    PROVE  Keeps(EmitArgs(s, i, json), b) /\ Len(EmitArgs(s, i, json).tools) = Len(s.tools)
<1> DEFINE x == s.tools[i]
<1>1. s \in Builder /\ Shape(s)
  BY DEF Keeps, Shape
<1>2. CASE x.name = "plain"
  BY <1>2, KeepsToolDelta DEF EmitArgs, SameBlocks
<1>3. CASE x.name # "plain" /\ x.name = "task" /\ x.done
  BY <1>3 DEF EmitArgs
<1>4. CASE x.name # "plain" /\ ~(x.name = "task" /\ x.done) /\ json = "partial"
  <2> DEFINE u == [s EXCEPT !.tools[i].buffer = "partial"]
  <2>1. "partial" \in Json
    BY DEF Json
  <2>2. SameBlocks(u, s) /\ u.out = s.out
    BY <1>1, <2>1, PutInTool
  <2>3. EmitArgs(s, i, json) = u
    BY <1>4 DEF EmitArgs
  <2> HIDE DEF u
  <2>4. Shape(u) /\ OpensSame(u, s)
    BY <1>1, <2>2, SameBlocksKeep
  <2> QED
    BY <2>2, <2>3, <2>4, KeepsStill DEF SameBlocks
<1>5. CASE x.name # "plain" /\ ~(x.name = "task" /\ x.done) /\ json # "partial"
  <2> DEFINE j == IF x.json = "none" THEN "complete" ELSE "partial"
             u == ToolDelta(s, i, j)
             v == [u EXCEPT !.tools[i].buffer = "none"]
             w == [v EXCEPT !.tools[i].done = (x.name = "task")]
  <2>1. "none" \in Json /\ j \in Json
    BY DEF Json
  <2>2. EmitArgs(s, i, json) = [u EXCEPT !.tools[i].buffer = "none", !.tools[i].done = (x.name = "task")]
    BY <1>5 DEF EmitArgs
  <2>3. [u EXCEPT !.tools[i].buffer = "none", !.tools[i].done = (x.name = "task")] = w
    OBVIOUS
  <2> HIDE DEF j
  <2>4. Keeps(u, b) /\ SameBlocks(u, s)
    BY <2>1, KeepsToolDelta
  <2> HIDE DEF u
  <2>5. i \in 1..Len(u.tools) /\ u \in Builder /\ Shape(u)
    BY <2>4 DEF SameBlocks, Keeps
  <2>6. SameBlocks(v, u) /\ v.out = u.out
    BY <2>1, <2>5, PutInTool
  <2> HIDE DEF v
  <2>7. i \in 1..Len(v.tools) /\ v \in Builder /\ (x.name = "task") \in BOOLEAN
    BY <2>5, <2>6 DEF SameBlocks
  <2>8. SameBlocks(w, v) /\ w.out = v.out
    BY <2>7, PutInTool
  <2> HIDE DEF w
  <2>9. SameBlocks(w, u) /\ w.out = u.out
    BY <2>6, <2>8, SameBlocksTwice
  <2>10. Shape(w) /\ OpensSame(w, u)
    BY <2>5, <2>9, SameBlocksKeep
  <2> QED
    BY <2>2, <2>3, <2>4, <2>9, <2>10, KeepsStill DEF SameBlocks
<1> QED
  BY <1>2, <1>3, <1>4, <1>5

LEMMA NewToolIs == NewTool \in ToolSet /\ NewTool.block = None
  BY DEF NewTool, ToolSet, None, Name, Json

\* A call gets its place, and a name.
LEMMA KeepsWithName ==
    ASSUME early_retries \in Nat, NEW s, NEW b, Keeps(s, b), NEW i \in 1..ToolMax,
           i <= Len(s.tools) + 1, NEW name \in Name
    PROVE  LET t == WithName(s, i, name) IN Keeps(t, b) /\ i \in 1..Len(t.tools)
<1> DEFINE u == IF i \in DOMAIN s.tools THEN s ELSE [s EXCEPT !.tools = Append(@, NewTool)]
<1>1. /\ s \in Builder /\ Shape(s) /\ s.tools \in Seq(ToolSet) /\ Len(s.tools) \in Nat
      /\ DOMAIN s.tools = 1..Len(s.tools)
  <2>1. s \in Builder /\ Shape(s)
    BY DEF Keeps, Shape
  <2>2. s.tools \in Seq(ToolSet)
    BY <2>1 DEF Builder
  <2> QED
    BY <2>1, <2>2, LenProperties
<1>2. Keeps(u, b) /\ i \in 1..Len(u.tools)
  <2>1. CASE i \in DOMAIN s.tools
    BY <1>1, <2>1
  <2>2. CASE i \notin DOMAIN s.tools
    <3> DEFINE q == Append(s.tools, NewTool)
               v == [s EXCEPT !.tools = q]
    <3>1. u = v
      BY <2>2
    <3>2. i = Len(s.tools) + 1 /\ i <= ToolMax
      BY <1>1, <2>2, StreamAssumption
    <3>3. NewTool \in ToolSet /\ NewTool.block = None
      BY NewToolIs
    <3>4. /\ q \in Seq(ToolSet) /\ Len(q) = Len(s.tools) + 1
          /\ \A j \in 1..Len(s.tools) : q[j] = s.tools[j]
          /\ q[Len(s.tools) + 1] = NewTool
      BY <1>1, <3>3, AppendProperties
    <3> HIDE DEF q
    <3>5. /\ v \in Builder /\ v.next = s.next /\ SameContent(v, s) /\ v.out = s.out
          /\ v.tools = q
      BY <1>1, <3>4, PutTools
    <3> HIDE DEF u, v
    <3>6. \A j \in 1..Len(v.tools) : j \in 1..Len(s.tools) \/ j = Len(s.tools) + 1
      BY <1>1, <3>4, <3>5
    <3>7. /\ \A j \in 1..Len(s.tools) : v.tools[j].block = s.tools[j].block
          /\ v.tools[Len(s.tools) + 1].block = None
      BY <3>3, <3>4, <3>5
    <3>8. Shape(v)
      <4>1. Len(v.tools) <= ToolMax
        BY <3>2, <3>4, <3>5
      <4>2. \A j \in 1..Len(v.tools) : v.tools[j].block \in -1..v.next - 1
        <5>1. None \in -1..s.next - 1
          BY <1>1 DEF Builder, None
        <5> QED
          BY <1>1, <3>5, <3>6, <3>7, <5>1 DEF Shape
      <4>3. \A j, k \in 1..Len(v.tools) :
               v.tools[j].block # None /\ v.tools[j].block = v.tools[k].block => j = k
        BY <1>1, <3>6, <3>7 DEF Shape
      <4> QED
        BY <1>1, <3>5, <4>1, <4>2, <4>3 DEF Shape, SameContent
    <3>9. OpensSame(v, s)
      <4>1. Len(s.tools) + 1 \in 1..Len(v.tools) /\ \A j \in 1..Len(s.tools) : j \in 1..Len(v.tools)
        BY <1>1, <3>4, <3>5
      <4>2. \A x : (x # None /\ \E j \in 1..Len(v.tools) : v.tools[j].block = x)
                     <=> (x # None /\ \E j \in 1..Len(s.tools) : s.tools[j].block = x)
        BY <3>6, <3>7, <4>1
      <4> QED
        BY <3>5, <4>2 DEF OpensSame, Opens, SameContent
    <3>10. Keeps(v, b)
      BY <3>5, <3>8, <3>9, KeepsStill
    <3> QED
      BY <3>1, <3>2, <3>4, <3>5, <3>10
  <2> QED
    BY <2>1, <2>2
<1>3. WithName(s, i, name) = IF name = "" \/ u.tools[i].name = "aliased" THEN u
                             ELSE [u EXCEPT !.tools[i].name = name]
  BY DEF WithName
<1> HIDE DEF u
<1>4. u \in Builder /\ Shape(u)
  BY <1>2 DEF Keeps, Shape
<1> DEFINE w == [u EXCEPT !.tools[i].name = name]
<1>5. SameBlocks(w, u) /\ w.out = u.out
  BY <1>2, <1>4, PutInTool
<1> HIDE DEF w
<1>6. Shape(w) /\ OpensSame(w, u)
  BY <1>4, <1>5, SameBlocksKeep
<1>7. Keeps(w, b) /\ i \in 1..Len(w.tools)
  BY <1>2, <1>5, <1>6, KeepsStill DEF SameBlocks
<1> QED
  BY <1>2, <1>3, <1>7 DEF w


\* The block of a call starts with its name; then what waited goes out.
LEMMA KeepsWithBlock ==
    ASSUME early_retries \in Nat, NEW s, NEW b, Keeps(s, b), NEW i \in 1..Len(s.tools)
    PROVE  Keeps(WithBlock(s, i), b) /\ Len(WithBlock(s, i).tools) = Len(s.tools)
<1> DEFINE x == s.tools[i]
           e == Event("start", s.next, "tool_use")
           a == Allocate(s)
           v == [a EXCEPT !.tools[i].block = s.next]
           u == Emit(v, e)
           w == [u EXCEPT !.tools[i].buffer = "none"]
<1>1. /\ s \in Builder /\ Shape(s) /\ s.tools \in Seq(ToolSet) /\ s.next \in Nat
      /\ x \in ToolSet
  <2>1. s \in Builder /\ Shape(s)
    BY DEF Keeps, Shape
  <2>2. s.tools \in Seq(ToolSet) /\ s.next \in Nat
    BY <2>1 DEF Builder
  <2> QED
    BY <2>1, <2>2, ElementOfSeq
<1>2. CASE x.block # None \/ x.name = ""
  BY <1>2 DEF WithBlock
<1>3. CASE x.block = None /\ x.name # ""
  <2>1. WithBlock(s, i) = IF x.buffer = "none" THEN u ELSE EmitArgs(w, i, x.buffer)
    BY <1>3 DEF WithBlock
  <2>2. /\ a \in Builder /\ a.next = s.next + 1 /\ SameContent(a, s) /\ a.tools = s.tools
        /\ a.out = s.out
    BY <1>1, AllocateIs
  <2>3. e \in EventSet
    <3>1. s.next \in Int
      BY <1>1
    <3>2. "start" \in EventKind /\ "tool_use" \in BlockKind
      BY DEF EventKind, BlockKind, Block
    <3> QED
      BY ONLY early_retries \in Nat, <3>1, <3>2, EventIs
  <2> HIDE DEF a
  <2>4. /\ v \in Builder /\ v.next = a.next /\ SameContent(v, a) /\ v.out = a.out
        /\ Len(v.tools) = Len(a.tools)
        /\ v.tools[i].block = s.next
        /\ \A j \in 1..Len(a.tools) : j # i => v.tools[j] = a.tools[j]
    <3> DEFINE y == [a.tools[i] EXCEPT !.block = s.next]
    <3>1. y \in ToolSet /\ y.block = s.next
      <4>1. a.tools[i] \in ToolSet /\ s.next \in Int
        BY <1>1, <2>2
      <4> QED
        BY <4>1 DEF ToolSet
    <3>2. v = [a EXCEPT !.tools = [a.tools EXCEPT ![i] = y]]
      OBVIOUS
    <3> HIDE DEF y, v
    <3>3. i \in 1..Len(a.tools)
      BY <2>2
    <3> QED
      BY <2>2, <3>1, <3>2, <3>3, PutTool
  <2> HIDE DEF v, e
  <2>5. /\ u \in Builder /\ u.next = v.next /\ SameContent(u, v) /\ u.tools = v.tools
        /\ u.out = Append(v.out, e)
    BY <2>3, <2>4, EmitIs
  <2> HIDE DEF u
  <2>6. /\ u \in Builder /\ u.next = s.next + 1 /\ SameContent(u, s) /\ u.out = Append(s.out, e)
        /\ Len(u.tools) = Len(s.tools)
        /\ u.tools[i].block = s.next
        /\ \A j \in 1..Len(s.tools) : j # i => u.tools[j].block = s.tools[j].block
    BY <2>2, <2>4, <2>5 DEF SameContent
  <2>7. Shape(u)
    <3>1. \A y \in -1..s.next - 1 : y \in -1..u.next - 1 /\ y # s.next
      BY <1>1, <2>6
    <3>2. s.next \in -1..u.next - 1
      BY <1>1, <2>6
    <3>3. \A j \in 1..Len(u.tools) : u.tools[j].block \in -1..u.next - 1
      BY <1>1, <2>6, <3>1, <3>2 DEF Shape
    <3>4. ASSUME NEW j \in 1..Len(u.tools), NEW k \in 1..Len(u.tools),
                 u.tools[j].block # None, u.tools[j].block = u.tools[k].block
          PROVE  j = k
      <4>1. \A l \in 1..Len(s.tools) : s.tools[l].block # s.next
        BY <1>1, <3>1 DEF Shape
      <4> QED
        BY <1>1, <2>6, <3>4, <4>1 DEF Shape
    <3> QED
      BY <1>1, <2>6, <3>1, <3>3, <3>4 DEF Shape, SameContent
  <2>8. \A j, d : Opens(u, j, d) <=> Opens(s, j, d) \/ (j = s.next /\ d = "tool_use")
    <3>1. s.next # None
      BY <1>1 DEF None
    <3>2. ASSUME NEW y
          PROVE  (y # None /\ \E j \in 1..Len(u.tools) : u.tools[j].block = y)
                   <=> (y # None /\ \E j \in 1..Len(s.tools) : s.tools[j].block = y) \/ y = s.next
      BY <1>3, <2>6, <3>1
    <3> QED
      BY <2>6, <3>2 DEF Opens, SameContent
  <2>9. "tool_use" \in Block /\ u.out = Append(s.out, Event("start", s.next, "tool_use"))
    BY <2>6 DEF Block, e
  <2>10. Keeps(u, b)
    BY <2>6, <2>7, <2>8, <2>9, KeepsStart
  <2>11. SameBlocks(w, u) /\ w.out = u.out
    <3>1. "none" \in Json /\ i \in 1..Len(u.tools)
      BY <2>6 DEF Json
    <3> QED
      BY <2>6, <3>1, PutInTool
  <2> HIDE DEF w
  <2>12. Shape(w) /\ OpensSame(w, u)
    BY <2>7, <2>11, SameBlocksKeep
  <2>13. Keeps(w, b)
    BY <2>10, <2>11, <2>12, KeepsStill DEF SameBlocks
  <2>14. i \in 1..Len(w.tools) /\ w.tools[i].block # None /\ x.buffer \in Json
    <3>1. s.next # None
      BY <1>1 DEF None
    <3> QED
      BY <1>1, <2>6, <2>11, <3>1 DEF SameBlocks, ToolSet
  <2>15. /\ Keeps(EmitArgs(w, i, x.buffer), b)
         /\ Len(EmitArgs(w, i, x.buffer).tools) = Len(w.tools)
    BY <2>13, <2>14, KeepsEmitArgs
  <2> QED
    BY <2>1, <2>6, <2>10, <2>11, <2>15 DEF SameBlocks
<1> QED
  BY <1>2, <1>3

\* Arguments wait for their block.
LEMMA KeepsWithArgs ==
    ASSUME early_retries \in Nat, NEW s, NEW b, Keeps(s, b), NEW i \in 1..Len(s.tools),
           NEW json \in Json
    PROVE  Keeps(WithArgs(s, i, json), b)
<1>1. s \in Builder /\ Shape(s)
  BY DEF Keeps, Shape
<1>2. CASE json = "none"
  BY <1>2 DEF WithArgs
<1>3. CASE json # "none" /\ s.tools[i].block = None
  <2> DEFINE u == [s EXCEPT !.tools[i].buffer = json]
  <2>1. WithArgs(s, i, json) = u
    BY <1>3 DEF WithArgs
  <2>2. SameBlocks(u, s) /\ u.out = s.out
    BY <1>1, PutInTool
  <2> HIDE DEF u
  <2>3. Shape(u) /\ OpensSame(u, s)
    BY <1>1, <2>2, SameBlocksKeep
  <2> QED
    BY <2>1, <2>2, <2>3, KeepsStill DEF SameBlocks
<1>4. CASE json # "none" /\ s.tools[i].block # None
  BY <1>4, KeepsEmitArgs DEF WithArgs
<1> QED
  BY <1>2, <1>3, <1>4

-----------------------------------------------------------------------------
(* The events of several tools *)

LEMMA ToolAt ==
    ASSUME NEW s \in Builder, NEW i \in 1..Len(s.tools)
    PROVE  s.tools[i] \in ToolSet /\ s.tools[i].block \in Int
<1>1. s.tools \in Seq(ToolSet)
  BY DEF Builder
<1>2. s.tools[i] \in ToolSet
  BY <1>1, ElementOfSeq
<1> QED
  BY <1>2 DEF ToolSet

\* They are put together tool by tool.
LEMMA ToolEventsRun ==
    ASSUME early_retries \in Nat, NEW s \in Builder, NEW I, NEW kind \in EventKind
    PROVE  \E f : /\ ToolEvents(s, I, kind) = f[Len(s.tools)]
                  /\ f[0] = <<>>
                  /\ \A i \in 1..Len(s.tools) :
                        /\ Event(kind, s.tools[i].block, "tool_use") \in EventSet
                        /\ f[i] = IF i \in I
                                  THEN Append(f[i - 1], Event(kind, s.tools[i].block, "tool_use"))
                                  ELSE f[i - 1]
<1> DEFINE n == Len(s.tools)
           G == Seq(EventSet)
           e(i) == Event(kind, s.tools[i].block, "tool_use")
           step(q, i) == IF i \in I THEN Append(q, e(i)) ELSE q
           Entry1(f, i) == IF i = 0 THEN <<>> ELSE step(f[i - 1], i)
           Computes(f) == f = [i \in 0..n |-> Entry1(f, i)]
           F == [i \in 1..n |-> [q \in G |-> step(q, i)]]
           none == <<>>
<1>1. n \in Nat /\ \A i \in 1..n : e(i) \in EventSet
  <2>1. s.tools \in Seq(ToolSet)
    BY DEF Builder
  <2>2. n \in Nat
    BY <2>1, LenProperties
  <2>3. ASSUME NEW i \in 1..n PROVE s.tools[i].block \in Int
    BY ToolAt
  <2>4. "tool_use" \in BlockKind
    BY DEF BlockKind, Block
  <2>5. ASSUME NEW i \in 1..n PROVE e(i) \in EventSet
    BY <2>3, <2>4, EventIs
  <2> QED
    BY <2>2, <2>5
<1>2. none \in G
  BY EmptySeq
<1>3. ToolEvents(s, I, kind) = (CHOOSE f : Computes(f))[n]
  BY DEF ToolEvents
<1> HIDE DEF e, n
<1>4. \A q \in G : \A i \in 1..n : step(q, i) \in G
  BY <1>1, AppendProperties
<1> HIDE DEF step
<1>5. F \in [1..n -> [G -> G]]
  BY <1>4
<1>6. \A i \in 1..n : \A q \in G : F[i][q] = step(q, i)
  OBVIOUS
<1>7. \E f : Computes(f)
  <2> HIDE DEF F, none
  <2>1. n \in Nat
    BY <1>1
  <2>2. PICK f : Folding(f, n, G, none, F)
    <3> HIDE DEF G
    <3> QED
      BY ONLY <2>1, <1>2, <1>5, Folds
  <2>3. f \in [0..n -> G] /\ f[0] = none /\ \A i \in 1..n : f[i] = F[i][f[i - 1]]
    BY <2>2 DEF Folding
  <2>4. ASSUME NEW i \in 0..n PROVE f[i] = Entry1(f, i)
    <3>1. CASE i = 0
      BY <2>3, <3>1 DEF none
    <3>2. CASE i # 0
      <4>1. i \in 1..n /\ i - 1 \in 0..n
        BY <2>1, <3>2
      <4> QED
        BY <1>6, <2>3, <3>2, <4>1
    <3> QED
      BY <3>1, <3>2
  <2>5. f = [i \in 0..n |-> Entry1(f, i)]
    <3> HIDE DEF Entry1
    <3> QED
      BY <2>3, <2>4
  <2> QED
    BY <2>5
<1> DEFINE g == CHOOSE f : Computes(f)
<1>8. \A i \in 0..n : g[i] = Entry1(g, i)
  <2>1. Computes(g)
    <3> HIDE DEF Computes
    <3> QED
      BY <1>7
  <2> HIDE DEF g, Entry1
  <2> QED
    BY <2>1
<1>9. ToolEvents(s, I, kind) = g[n]
  BY <1>3
<1> HIDE DEF g
<1>10. g[0] = <<>>
  BY <1>1, <1>8
<1>11. \A i \in 1..n : g[i] = step(g[i - 1], i)
  <2>1. \A i \in 1..n : i \in 0..n /\ i # 0
    BY <1>1
  <2> QED
    BY <1>8, <2>1
<1> QED
  BY <1>1, <1>9, <1>10, <1>11 DEF step, e, n

\* Appending to what follows L.
LEMMA FollowsAppend ==
    ASSUME NEW L \in Seq(EventSet), NEW q \in Seq(EventSet), NEW e \in EventSet
    PROVE  /\ Append(q, e) \in Seq(EventSet)
           /\ L \o Append(q, e) = Append(L \o q, e)
  BY AppendProperties, AppendAfter

\* Started tools go on, one after the other.
LEMMA ToolDeltas ==
    ASSUME early_retries \in Nat, NEW s, NEW b, Keeps(s, b), NEW I \in SUBSET Started(s)
    PROVE  LET q == ToolEvents(s, I, "delta")
               M == (b \o s.out) \o q
           IN  /\ q \in Seq(EventSet)
               /\ Journal(M, s.next, early_retries)
               /\ \A i : StaysOpen(b \o s.out, M, i)
               /\ StayStopped(b \o s.out, M)
<1> DEFINE n == Len(s.tools)
           L == b \o s.out
           e(i) == Event("delta", s.tools[i].block, "tool_use")
           x == s.next
<1>1. /\ s \in Builder /\ x \in Nat
      /\ Journal(L, x, early_retries)
      /\ \A i, c : Opens(s, i, c) => OpenIn(L, i, c)
  BY KeptJournal
<1>2. L \in Seq(EventSet) /\ n \in Nat
  BY <1>1, LenProperties DEF Journal, Builder
<1>3. "delta" \in EventKind /\ "tool_use" \in BlockKind
  BY DEF EventKind, BlockKind, Block
<1>4. PICK f : /\ ToolEvents(s, I, "delta") = f[n]
               /\ f[0] = <<>>
               /\ \A i \in 1..n : /\ e(i) \in EventSet
                                  /\ f[i] = IF i \in I THEN Append(f[i - 1], e(i)) ELSE f[i - 1]
  BY <1>1, <1>3, ToolEventsRun
<1>5. ASSUME NEW i \in 1..n, i \in I
      PROVE  /\ OpenIn(L, s.tools[i].block, "tool_use")
             /\ e(i).event = "delta" /\ e(i).index = s.tools[i].block /\ e(i).block = "tool_use"
             /\ e(i).attempt = early_retries
  <2>1. Opens(s, s.tools[i].block, "tool_use")
    BY <1>5 DEF Opens, Started
  <2>2. s.tools[i].block \in Int
    BY <1>1, ToolAt
  <2> QED
    BY <1>1, <1>3, <2>1, <2>2, EventIs
<1> DEFINE Fine(k) == /\ f[k] \in Seq(EventSet)
                      /\ Journal(L \o f[k], x, early_retries)
                      /\ \A i : StaysOpen(L, L \o f[k], i)
                      /\ StayStopped(L, L \o f[k])
           P == {k \in 0..n : Fine(k)}
<1> HIDE DEF L, e, x, n
<1>6. 0 \in P
  <2>1. f[0] \in Seq(EventSet) /\ L \o f[0] = L
    BY <1>2, <1>4, ConcatEmptySeq, EmptySeq
  <2>2. Fine(0)
    BY <1>1, <2>1 DEF StaysOpen, StayStopped
  <2> HIDE DEF Fine
  <2> QED
    BY <1>2, <2>2
<1>7. ASSUME NEW k \in 1..n, k - 1 \in P PROVE k \in P
  <2>1. Fine(k - 1)
    BY <1>7
  <2>2. CASE k \notin I
    <3>1. f[k] = f[k - 1]
      BY <1>4, <2>2
    <3> QED
      BY <1>2, <2>1, <3>1
  <2>3. CASE k \in I
    <3> DEFINE q == f[k - 1]
               M == L \o q
    <3>1. f[k] = Append(q, e(k)) /\ e(k) \in EventSet
      BY <1>4, <2>3
    <3>2. /\ q \in Seq(EventSet) /\ Journal(M, x, early_retries)
          /\ \A i : StaysOpen(L, M, i)
          /\ StayStopped(L, M)
      BY <2>1
    <3> HIDE DEF q
    <3>3. f[k] \in Seq(EventSet) /\ L \o f[k] = Append(M, e(k))
      BY <1>2, <3>1, <3>2, FollowsAppend
    <3> HIDE DEF M
    <3>4. OpenIn(M, s.tools[k].block, "tool_use")
      BY <1>5, <2>3, <3>2 DEF StaysOpen
    <3>5. /\ Journal(Append(M, e(k)), x, early_retries)
          /\ \A i : StaysOpen(M, Append(M, e(k)), i)
          /\ StayStopped(M, Append(M, e(k)))
      <4>1. e(k).event \in {"delta", "stop"} /\ e(k).event = "delta"
        BY <1>5, <2>3
      <4> QED
        BY <1>1, <1>5, <2>3, <3>1, <3>2, <3>4, <4>1, JournalGoesOn
    <3>6. Fine(k)
      BY <3>2, <3>3, <3>5 DEF StaysOpen, StayStopped
    <3> HIDE DEF Fine
    <3> QED
      BY <1>2, <3>6
  <2> QED
    BY <2>2, <2>3
<1>8. Fine(n)
  <2> HIDE DEF P
  <2>1. 0..n \subseteq P
    BY <1>2, <1>6, <1>7, Reaches
  <2>2. n \in P
    BY <1>2, <2>1
  <2> HIDE DEF Fine
  <2> QED
    BY <2>2 DEF P
<1> QED
  BY <1>4, <1>8 DEF L, x

\* Every started tool stops, one after the other.
LEMMA ToolStops ==
    ASSUME early_retries \in Nat, NEW s, NEW b, Keeps(s, b), ~s.text_started, ~s.thinking_started
    PROVE  LET q == ToolEvents(s, Started(s), "stop")
               M == (b \o s.out) \o q
           IN  /\ q \in Seq(EventSet)
               /\ Journal(M, s.next, early_retries)
               /\ \A i \in 0..s.next - 1 : StoppedIn(M, i)
<1> DEFINE n == Len(s.tools)
           L == b \o s.out
           e(i) == Event("stop", s.tools[i].block, "tool_use")
           x == s.next
           at(i) == s.tools[i].block
<1>1. /\ s \in Builder /\ x \in Nat
      /\ Journal(L, x, early_retries)
      /\ \A i, c : Opens(s, i, c) => OpenIn(L, i, c)
      /\ \A i \in 0..x - 1 : StoppedIn(L, i) \/ \E c : Opens(s, i, c)
  BY KeptJournal
<1>2. L \in Seq(EventSet) /\ n \in Nat
  BY <1>1, LenProperties DEF Journal, Builder
<1>3. "stop" \in EventKind /\ "tool_use" \in BlockKind
  BY DEF EventKind, BlockKind, Block
<1>31. \A i \in 1..n : i \in Started(s) <=> at(i) # None
  BY <1>1, LenProperties DEF Started, Builder
<1>4. PICK f : /\ ToolEvents(s, Started(s), "stop") = f[n]
               /\ f[0] = <<>>
               /\ \A i \in 1..n : /\ e(i) \in EventSet
                                  /\ f[i] = IF i \in Started(s) THEN Append(f[i - 1], e(i)) ELSE f[i - 1]
  BY <1>1, <1>3, ToolEventsRun
<1>5. ASSUME NEW i \in 1..n, at(i) # None
      PROVE  /\ OpenIn(L, at(i), "tool_use")
             /\ e(i).event = "stop" /\ e(i).index = at(i) /\ e(i).block = "tool_use"
             /\ e(i).attempt = early_retries
  <2>1. Opens(s, at(i), "tool_use")
    BY <1>5 DEF Opens
  <2>2. at(i) \in Int
    BY <1>1, ToolAt
  <2> QED
    BY <1>1, <1>3, <2>1, <2>2, EventIs
<1>6. \A i, j \in 1..n : at(i) # None /\ at(i) = at(j) => i = j
  BY DEF Keeps, Shape
<1>7. \A i \in 0..x - 1 : StoppedIn(L, i) \/ \E j \in 1..n : at(j) # None /\ at(j) = i
  BY <1>1 DEF Opens
<1> DEFINE Fine(k) == /\ f[k] \in Seq(EventSet)
                      /\ Journal(L \o f[k], x, early_retries)
                      /\ \A j \in 1..n : j > k /\ at(j) # None => OpenIn(L \o f[k], at(j), "tool_use")
                      /\ \A j \in 1..n : j <= k /\ at(j) # None => StoppedIn(L \o f[k], at(j))
                      /\ StayStopped(L, L \o f[k])
           P == {k \in 0..n : Fine(k)}
<1> HIDE DEF L, e, x, n, at
<1>8. 0 \in P
  <2>1. f[0] \in Seq(EventSet) /\ L \o f[0] = L
    BY <1>2, <1>4, ConcatEmptySeq, EmptySeq
  <2>2. \A j \in 1..n : ~(j <= 0)
    BY <1>2
  <2>3. Fine(0)
    BY <1>1, <1>5, <2>1, <2>2 DEF StayStopped
  <2> HIDE DEF Fine
  <2> QED
    BY <1>2, <2>3
<1>9. ASSUME NEW k \in 1..n, k - 1 \in P PROVE k \in P
  <2>1. Fine(k - 1)
    BY <1>9
  <2>0. /\ \A j \in 1..n : j > k - 1 <=> j = k \/ j > k
        /\ \A j \in 1..n : j <= k <=> j = k \/ j <= k - 1
        /\ \A j \in 1..n : j > k => j # k
    BY <1>2
  <2>2. CASE at(k) = None
    <3>1. f[k] = f[k - 1]
      BY <1>31, <1>4, <2>2
    <3>2. Fine(k)
      BY <2>0, <2>1, <2>2, <3>1
    <3> HIDE DEF Fine
    <3> QED
      BY <1>2, <3>2
  <2>3. CASE at(k) # None
    <3> DEFINE q == f[k - 1]
               M == L \o q
               N == Append(M, e(k))
    <3>1. f[k] = Append(q, e(k)) /\ e(k) \in EventSet
      BY <1>31, <1>4, <2>3
    <3>2. /\ q \in Seq(EventSet) /\ Journal(M, x, early_retries)
          /\ \A j \in 1..n : j > k - 1 /\ at(j) # None => OpenIn(M, at(j), "tool_use")
          /\ \A j \in 1..n : j <= k - 1 /\ at(j) # None => StoppedIn(M, at(j))
          /\ StayStopped(L, M)
      BY <2>1
    <3> HIDE DEF q
    <3>3. f[k] \in Seq(EventSet) /\ L \o f[k] = N
      BY <1>2, <3>1, <3>2, FollowsAppend
    <3> HIDE DEF M
    <3>4. OpenIn(M, at(k), "tool_use")
      BY <2>0, <2>3, <3>2
    <3>5. /\ Journal(N, x, early_retries)
          /\ StoppedIn(N, at(k))
          /\ \A j : j # at(k) => StaysOpen(M, N, j)
          /\ StayStopped(M, N)
      <4>1. e(k).event \in {"delta", "stop"} /\ e(k).event = "stop"
        BY <1>5, <2>3
      <4> QED
        BY <1>1, <1>5, <2>3, <3>1, <3>2, <3>4, <4>1, JournalGoesOn
    <3> HIDE DEF N
    <3>6. ASSUME NEW j \in 1..n, j > k, at(j) # None PROVE OpenIn(N, at(j), "tool_use")
      <4>1. at(j) # at(k)
        BY <1>6, <2>0, <3>6
      <4> QED
        BY <2>0, <3>2, <3>5, <3>6, <4>1 DEF StaysOpen
    <3>7. ASSUME NEW j \in 1..n, j <= k, at(j) # None PROVE StoppedIn(N, at(j))
      BY <2>0, <3>2, <3>5, <3>7 DEF StayStopped
    <3>8. StayStopped(L, N)
      BY <3>2, <3>5 DEF StayStopped
    <3>9. Fine(k)
      BY <3>3, <3>5, <3>6, <3>7, <3>8
    <3> HIDE DEF Fine
    <3> QED
      BY <1>2, <3>9
  <2> QED
    BY <2>2, <2>3
<1>10. Fine(n)
  <2> HIDE DEF P
  <2>1. 0..n \subseteq P
    BY <1>2, <1>8, <1>9, Reaches
  <2>2. n \in P
    BY <1>2, <2>1
  <2> HIDE DEF Fine
  <2> QED
    BY <2>2 DEF P
<1>11. ASSUME NEW i \in 0..x - 1 PROVE StoppedIn(L \o f[n], i)
  <2>1. CASE StoppedIn(L, i)
    BY <1>10, <2>1 DEF StayStopped
  <2>2. CASE \E j \in 1..n : at(j) # None /\ at(j) = i
    BY <1>2, <1>10, <2>2
  <2> QED
    BY <1>7, <2>1, <2>2
<1> QED
  BY <1>4, <1>10, <1>11 DEF L, x

\* Nothing is open any more: the end of a message may follow.
Closed(s, b) ==
    /\ Shape(s) /\ b \in Seq(EventSet)
    /\ Journal(b \o s.out, s.next, early_retries)
    /\ \A i \in 0..s.next - 1 : StoppedIn(b \o s.out, i)

LEMMA ClosesAll ==
    ASSUME early_retries \in Nat, NEW s, NEW b, Keeps(s, b)
    PROVE  LET t == CloseAll(s)
           IN  /\ Closed(t, b) /\ t.next = s.next /\ Started(t) = Started(s)
               /\ t.text_started = FALSE /\ t.thinking_started = FALSE
<1> DEFINE u == CloseContent(s)
           q == ToolEvents(u, Started(u), "stop")
           x == u.out \o q
           t == [u EXCEPT !.out = x]
<1>1. /\ Keeps(u, b) /\ u.next = s.next /\ u.tools = s.tools
      /\ u.text_started = FALSE /\ u.thinking_started = FALSE
  BY KeepsCloseContent
<1>2. CloseAll(s) = t
  BY DEF CloseAll
<1> HIDE DEF u
<1>3. /\ q \in Seq(EventSet)
      /\ Journal((b \o u.out) \o q, u.next, early_retries)
      /\ \A i \in 0..u.next - 1 : StoppedIn((b \o u.out) \o q, i)
  BY <1>1, ToolStops
<1> HIDE DEF q
<1>4. u \in Builder /\ u.out \in Seq(EventSet) /\ b \in Seq(EventSet)
  BY <1>1, KeptJournal
<1>5. x \in Seq(EventSet)
  BY <1>3, <1>4, ConcatProperties
<1>51. (b \o u.out) \o q = b \o x
  <2>1. b \in Seq(EventSet) /\ u.out \in Seq(EventSet) /\ q \in Seq(EventSet)
    BY <1>3, <1>4
  <2> QED
    BY ONLY <2>1, Associates
<1> HIDE DEF x
<1>6. /\ t \in Builder /\ t.next = u.next /\ SameContent(t, u) /\ t.tools = u.tools
      /\ t.out = x
  BY <1>4, <1>5, PutOut
<1> HIDE DEF t
<1>7. Shape(t)
  BY <1>1, <1>6 DEF Keeps, Shape, SameContent
<1>8. Closed(t, b)
  BY <1>3, <1>4, <1>51, <1>6, <1>7 DEF Closed
<1>9. Started(t) = Started(s)
  BY <1>1, <1>6 DEF Started
<1> QED
  BY <1>1, <1>2, <1>6, <1>8, <1>9 DEF SameContent

\* What waits for a tool's arguments goes out.
LEMMA KeepsFlushTools ==
    ASSUME early_retries \in Nat, NEW s, NEW b, Keeps(s, b)
    PROVE  Keeps(FlushTools(s), b) /\ FlushTools(s).next = s.next
<1> DEFINE I == {i \in Started(s) : s.tools[i].buffer # "none"}
           q == ToolEvents(s, I, "delta")
           x == s.out \o q
           t == [s EXCEPT !.out = x]
           M == (b \o s.out) \o q
<1>1. FlushTools(s) = t
  BY DEF FlushTools
<1>2. I \in SUBSET Started(s)
  OBVIOUS
<1> HIDE DEF I
<1>3. /\ q \in Seq(EventSet)
      /\ Journal(M, s.next, early_retries)
      /\ \A i : StaysOpen(b \o s.out, M, i)
      /\ StayStopped(b \o s.out, M)
  BY <1>2, ToolDeltas
<1>4. /\ s \in Builder /\ s.out \in Seq(EventSet) /\ b \in Seq(EventSet)
      /\ \A i, c : Opens(s, i, c) => OpenIn(b \o s.out, i, c)
      /\ \A i \in 0..s.next - 1 : StoppedIn(b \o s.out, i) \/ \E c : Opens(s, i, c)
  BY KeptJournal
<1> HIDE DEF q
<1>5. x \in Seq(EventSet)
  BY <1>3, <1>4, ConcatProperties
<1>51. M = b \o x
  <2>1. b \in Seq(EventSet) /\ s.out \in Seq(EventSet) /\ q \in Seq(EventSet)
    BY <1>3, <1>4
  <2> QED
    BY ONLY <2>1, Associates
<1> HIDE DEF x, M
<1>6. /\ t \in Builder /\ t.next = s.next /\ SameContent(t, s) /\ t.tools = s.tools
      /\ t.out = x
  BY <1>4, <1>5, PutOut
<1> HIDE DEF t
<1>7. Shape(t)
  BY <1>6 DEF Keeps, Shape, SameContent
<1>8. OpensSame(t, s)
  BY <1>6 DEF OpensSame, Opens, SameContent
<1>9. Agrees(t, M, early_retries)
  BY <1>3, <1>4, <1>6, <1>8 DEF Agrees, OpensSame, StaysOpen, StayStopped
<1> QED
  BY <1>1, <1>4, <1>51, <1>6, <1>7, <1>9 DEF Keeps

-----------------------------------------------------------------------------
(* The end of a message *)

\* All blocks have their start and their stop.
Trail(L, n, a) ==
    /\ L \in Seq(EventSet)
    /\ \A k \in 1..Len(L) :
          /\ InPlace(L, k) /\ L[k].attempt = a /\ L[k].event # "message_stop"
          /\ L[k].event = "start" => L[k].index \in 0..n - 1
    /\ \A i \in 0..n - 1 : StoppedIn(L, i) /\ \E k \in 1..Len(L) : StartAt(L, k, i)

\* ... and message_stop came.
Whole(L, n, a) ==
    /\ L \in Seq(EventSet) /\ n > 0
    /\ \A k \in 1..Len(L) :
          /\ InPlace(L, k) /\ L[k].attempt = a
          /\ L[k].event = "message_stop" => k = Len(L)
          /\ L[k].event = "start" => L[k].index \in 0..n - 1
    /\ \A i \in 0..n - 1 : StoppedIn(L, i) /\ \E k \in 1..Len(L) : StartAt(L, k, i)
    /\ Len(L) > 0 /\ L[Len(L)].event = "message_stop"

LEMMA ClosedTrail ==
    ASSUME NEW s, NEW b, Closed(s, b)
    PROVE  Trail(b \o s.out, s.next, early_retries)
<1> DEFINE L == b \o s.out
<1>1. Journal(L, s.next, early_retries) /\ \A i \in 0..s.next - 1 : StoppedIn(L, i)
  BY DEF Closed
<1> HIDE DEF L
<1>2. Trail(L, s.next, early_retries)
  BY <1>1 DEF Journal, Trail
<1> QED
  BY <1>2 DEF L

\* An event that is of no block, after all blocks.
LEMMA AfterBlocks ==
    ASSUME NEW n \in Nat, NEW a \in Nat, NEW L, Trail(L, n, a), NEW e \in EventSet, e.attempt = a,
           e.event \notin {"start", "delta", "stop"}
    PROVE  LET M == Append(L, e)
           IN  /\ M \in Seq(EventSet) /\ Len(M) = Len(L) + 1 /\ Len(L) \in Nat
               /\ \A k \in 1..Len(M) :
                     /\ InPlace(M, k) /\ M[k].attempt = a
                     /\ M[k].event = "message_stop" => k = Len(M) /\ e.event = "message_stop"
                     /\ M[k].event = "start" => M[k].index \in 0..n - 1
               /\ \A i \in 0..n - 1 : StoppedIn(M, i) /\ \E k \in 1..Len(M) : StartAt(M, k, i)
               /\ M[Len(M)] = e
<1> DEFINE M == Append(L, e)
<1>1. /\ L \in Seq(EventSet)
      /\ \A k \in 1..Len(L) :
            /\ InPlace(L, k) /\ L[k].attempt = a /\ L[k].event # "message_stop"
            /\ L[k].event = "start" => L[k].index \in 0..n - 1
      /\ \A i \in 0..n - 1 : StoppedIn(L, i) /\ \E k \in 1..Len(L) : StartAt(L, k, i)
  BY DEF Trail
<1>2. /\ M \in Seq(EventSet) /\ Len(L) \in Nat /\ Len(M) = Len(L) + 1
      /\ \A k \in 1..Len(L) : M[k] = L[k]
      /\ M[Len(L) + 1] = e
      /\ \A k \in 1..Len(L) : InPlace(L, k) => InPlace(M, k)
  BY <1>1, Appended
<1> HIDE DEF M
<1>3. \A k \in 1..Len(M) : k \in 1..Len(L) \/ k = Len(M)
  BY <1>2
<1>4. InPlace(M, Len(M)) /\ M[Len(M)] = e
  BY <1>2 DEF InPlace
<1>5. ASSUME NEW k \in 1..Len(M)
      PROVE  /\ InPlace(M, k) /\ M[k].attempt = a
             /\ M[k].event = "message_stop" => k = Len(M) /\ e.event = "message_stop"
             /\ M[k].event = "start" => M[k].index \in 0..n - 1
  BY <1>1, <1>2, <1>3, <1>4
<1>6. ASSUME NEW i \in 0..n - 1 PROVE StoppedIn(M, i) /\ \E k \in 1..Len(M) : StartAt(M, k, i)
  <2>1. PICK k \in 1..Len(L) : StartAt(L, k, i)
    BY <1>1
  <2>2. PICK l \in 1..Len(L) : StopAt(L, l, i)
    BY <1>1 DEF StoppedIn
  <2>3. k \in 1..Len(M) /\ l \in 1..Len(M) /\ StartAt(M, k, i) /\ StopAt(M, l, i)
    BY <1>2, <2>1, <2>2 DEF StartAt, StopAt
  <2> QED
    BY <2>3 DEF StoppedIn
<1> QED
  BY <1>2, <1>4, <1>5, <1>6 DEF M

LEMMA TrailGoesOn ==
    ASSUME NEW n \in Nat, NEW a \in Nat, NEW L, Trail(L, n, a), NEW e \in EventSet, e.attempt = a,
           e.event \in {"error", "message_delta"}
    PROVE  Trail(Append(L, e), n, a)
<1> DEFINE M == Append(L, e)
<1>1. e.event \notin {"start", "delta", "stop"} /\ e.event # "message_stop"
  OBVIOUS
<1>2. /\ M \in Seq(EventSet)
      /\ \A k \in 1..Len(M) :
            /\ InPlace(M, k) /\ M[k].attempt = a
            /\ M[k].event = "message_stop" => e.event = "message_stop"
            /\ M[k].event = "start" => M[k].index \in 0..n - 1
      /\ \A i \in 0..n - 1 : StoppedIn(M, i) /\ \E k \in 1..Len(M) : StartAt(M, k, i)
  BY <1>1, AfterBlocks
<1> HIDE DEF M
<1>3. Trail(M, n, a)
  BY <1>1, <1>2 DEF Trail
<1> QED
  BY <1>3 DEF M

LEMMA TrailEnds ==
    ASSUME NEW n \in Nat, n > 0, NEW a \in Nat, NEW L, Trail(L, n, a), NEW e \in EventSet, e.attempt = a,
           e.event = "message_stop"
    PROVE  Whole(Append(L, e), n, a)
<1> DEFINE M == Append(L, e)
<1>0. e.event \notin {"start", "delta", "stop"}
  OBVIOUS
<1>1. /\ M \in Seq(EventSet) /\ Len(M) = Len(L) + 1 /\ Len(L) \in Nat
      /\ \A k \in 1..Len(M) :
            /\ InPlace(M, k) /\ M[k].attempt = a
            /\ M[k].event = "message_stop" => k = Len(M) /\ e.event = "message_stop"
            /\ M[k].event = "start" => M[k].index \in 0..n - 1
      /\ \A i \in 0..n - 1 : StoppedIn(M, i) /\ \E k \in 1..Len(M) : StartAt(M, k, i)
      /\ M[Len(M)] = e
  BY <1>0, AfterBlocks
<1> HIDE DEF M
<1>2. Len(M) > 0
  BY <1>1
<1>3. Whole(M, n, a)
  BY <1>1, <1>2 DEF Whole
<1> QED
  BY <1>3 DEF M

-----------------------------------------------------------------------------
(* The invariant *)

StreamTypes ==
    /\ phase \in {"created", "opening", "reading", "recovering", "ended"}
    /\ committed \in BOOLEAN /\ finish_reason \in BOOLEAN /\ thinking \in BOOLEAN
    /\ chunks \in 0..ChunkMax
    /\ early_retries \in 0..MaxRetries
    /\ sent \in Seq(EventSet) /\ held \in Seq(EventSet)

\* What was sent and what is held back are one journal; what is held back ends
\* with the hold-back.
StreamInv ==
    /\ StreamTypes
    /\ Shape(sse) /\ sse.out = <<>>
    /\ committed => held = <<>>
    /\ ~committed => sent = <<>>
    /\ phase # "ended" => Agrees(sse, sent \o held, early_retries)
    /\ phase = "ended" => held = <<>> /\ Whole(sent, sse.next, early_retries)

LEMMA Retries == ASSUME StreamInv PROVE early_retries \in Nat
  BY StreamAssumption DEF StreamInv, StreamTypes

\* A builder with nothing to send.
LEMMA Silent ==
    ASSUME NEW s \in Builder
    PROVE  LET t == [s EXCEPT !.out = <<>>]
           IN  /\ t \in Builder /\ t.next = s.next /\ SameContent(t, s) /\ t.tools = s.tools
               /\ t.out = <<>>
               /\ Shape(s) => Shape(t)
               /\ OpensSame(t, s)
<1> DEFINE none == <<>>
           t == [s EXCEPT !.out = none]
<1>1. none \in Seq(EventSet)
  BY EmptySeq
<1> HIDE DEF none
<1>2. /\ t \in Builder /\ t.next = s.next /\ SameContent(t, s) /\ t.tools = s.tools
      /\ t.out = none
  BY <1>1, PutOut
<1> HIDE DEF t
<1>3. Shape(s) => Shape(t)
  BY <1>2 DEF Shape, SameContent
<1>4. OpensSame(t, s)
  BY <1>2 DEF OpensSame, Opens, SameContent
<1> QED
  BY <1>2, <1>3, <1>4 DEF t, none

LEMMA StreamKeeps ==
    ASSUME StreamInv, phase # "ended"
    PROVE  Keeps(sse, sent \o held)
<1>1. sent \in Seq(EventSet) /\ held \in Seq(EventSet)
  BY DEF StreamInv, StreamTypes
<1>2. sent \o held \in Seq(EventSet)
  BY <1>1, Associates
<1>3. (sent \o held) \o sse.out = sent \o held
  BY <1>2, ConcatEmptySeq DEF StreamInv
<1> QED
  BY <1>2, <1>3 DEF StreamInv, Keeps

\* A step that sends events, or holds them back, keeps the invariant.
LEMMA PushKeeps ==
    ASSUME StreamInv, phase # "ended", NEW s, Keeps(s, sent \o held), Push(s),
           UNCHANGED <<phase, early_retries, thinking>>,
           finish_reason' \in BOOLEAN, chunks' \in 0..ChunkMax
    PROVE  StreamInv'
<1>1. /\ sent \in Seq(EventSet) /\ held \in Seq(EventSet)
      /\ s \in Builder /\ s.out \in Seq(EventSet) /\ Shape(s)
      /\ Agrees(s, (sent \o held) \o s.out, early_retries)
  BY KeptJournal DEF StreamInv, StreamTypes, Keeps
<1>2. sse' = [s EXCEPT !.out = <<>>]
  BY DEF Push
<1>3. Shape(sse') /\ sse'.out = <<>> /\ OpensSame(sse', s) /\ sse'.next = s.next
  BY <1>1, <1>2, Silent
<1>4. /\ sent' \in Seq(EventSet) /\ held' \in Seq(EventSet) /\ committed' \in BOOLEAN
      /\ committed' => held' = <<>>
      /\ ~committed' => sent' = <<>>
      /\ sent' \o held' = (sent \o held) \o s.out
  <2>1. CASE /\ ~committed
             /\ held' = held \o s.out
             /\ UNCHANGED <<committed, sent>>
    <3>1. held \o s.out \in Seq(EventSet) /\ (sent \o held) \o s.out = sent \o (held \o s.out)
      BY <1>1, Associates
    <3> QED
      BY <1>1, <2>1, <3>1 DEF StreamInv, StreamTypes
  <2>2. CASE /\ sent' = sent \o held \o s.out
             /\ held' = <<>>
             /\ committed' = TRUE
    <3>1. sent \o held \in Seq(EventSet)
      BY <1>1, Associates
    <3>2. (sent \o held) \o s.out \in Seq(EventSet)
      BY <1>1, <3>1, Associates
    <3>3. sent' \in Seq(EventSet)
      BY <2>2, <3>2
    <3>4. sent' \o <<>> = sent'
      BY <3>3, ConcatEmptySeq
    <3>5. held' \in Seq(EventSet)
      BY <2>2, EmptySeq
    <3> QED
      BY <2>2, <3>3, <3>4, <3>5
  <2> QED
    BY <2>1, <2>2 DEF Push
<1>5. Agrees(sse', sent' \o held', early_retries')
  <2>1. Agrees(s, sent' \o held', early_retries')
    BY <1>1, <1>4
  <2> QED
    BY <1>3, <2>1 DEF Agrees, OpensSame
<1>6. StreamTypes'
  BY <1>4 DEF StreamInv, StreamTypes
<1> QED
  BY <1>3, <1>4, <1>5, <1>6 DEF StreamInv

LEMMA PairAppended ==
    ASSUME NEW L \in Seq(EventSet), NEW d \in EventSet, NEW m \in EventSet
    PROVE  L \o <<d, m>> = Append(Append(L, d), m)
<1>1. <<d>> \in Seq(EventSet) /\ <<m>> \in Seq(EventSet)
  OBVIOUS
<1>2. <<d, m>> = <<d>> \o <<m>>
  <2> DEFINE p == <<d>>
             q == <<m>>
             r == <<d, m>>
  <2>1. p \in Seq(EventSet) /\ q \in Seq(EventSet) /\ r \in Seq(EventSet)
    OBVIOUS
  <2>2. Len(p) = 1 /\ p[1] = d /\ Len(q) = 1 /\ q[1] = m /\ Len(r) = 2 /\ r[1] = d /\ r[2] = m
    OBVIOUS
  <2> HIDE DEF p, q, r
  <2> DEFINE u == Append(p, m)
  <2>3. u = p \o q
    BY <2>1, AppendIsConcat DEF q
  <2>4. u \in Seq(EventSet) /\ Len(u) = Len(p) + 1 /\ u[Len(p) + 1] = m /\ \A i \in 1..Len(p) : u[i] = p[i]
    BY <2>1, AppendProperties
  <2> HIDE DEF u
  <2>5. Len(u) = 2 /\ u[1] = d /\ u[2] = m
    BY <2>2, <2>4
  <2>6. \A i \in 1..2 : u[i] = r[i]
    BY <2>2, <2>5
  <2>7. u = r
    BY <2>1, <2>2, <2>4, <2>5, <2>6, SeqEqual
  <2> QED
    BY <2>3, <2>7 DEF p, q, r
<1>3. (L \o <<d>>) \o <<m>> = L \o (<<d>> \o <<m>>) /\ L \o <<d>> \in Seq(EventSet)
  BY <1>1, Associates
<1>4. L \o <<d>> = Append(L, d)
  BY AppendIsConcat
<1>5. (L \o <<d>>) \o <<m>> = Append(L \o <<d>>, m)
  BY <1>3, AppendIsConcat
<1> QED
  BY <1>2, <1>3, <1>4, <1>5

\* The end of a message, after all of its blocks.
LEMMA EndKeeps ==
    ASSUME StreamInv, NEW s, Shape(s), s.next > 0,
           Trail((sent \o held) \o s.out, s.next, early_retries),
           NEW reason \in BlockKind, EndWith(s, reason),
           UNCHANGED <<early_retries, finish_reason, thinking, chunks>>
    PROVE  StreamInv'
<1> DEFINE L == (sent \o held) \o s.out
           d == Event("message_delta", None, reason)
           m == Event("message_stop", None, "")
           n == s.next
           a == early_retries
<1>1. /\ sent' = L \o <<d, m>>
      /\ held' = <<>> /\ committed' = TRUE /\ phase' = "ended"
      /\ sse' = [s EXCEPT !.out = <<>>]
  BY DEF EndWith
<1>2. a \in Nat
  BY Retries
<1>3. /\ d \in EventSet /\ d.event = "message_delta" /\ d.attempt = a
      /\ m \in EventSet /\ m.event = "message_stop" /\ m.attempt = a
  <2>1. "message_delta" \in EventKind /\ "message_stop" \in EventKind /\ "" \in BlockKind
    BY DEF EventKind, BlockKind
  <2>2. None \in Int
    BY DEF None
  <2> QED
    BY <1>2, <2>1, <2>2 DEF Event, EventSet
<1>4. s \in Builder /\ n \in Nat /\ n > 0 /\ Trail(L, n, a)
  BY DEF Shape, Builder
<1> HIDE DEF d, m, L, a
<1>5. L \in Seq(EventSet)
  BY <1>4 DEF Trail
<1>6. sent' = Append(Append(L, d), m)
  BY <1>1, <1>3, <1>5, PairAppended
<1>7. Shape(sse') /\ sse'.out = <<>> /\ sse'.next = n
  BY <1>1, <1>4, Silent
<1> HIDE DEF n
<1> DEFINE M == Append(L, d)
<1>8. Trail(M, n, a)
  <2>1. d.event \in {"error", "message_delta"}
    BY <1>3
  <2> QED
    BY <1>2, <1>3, <1>4, <2>1, TrailGoesOn
<1> HIDE DEF M
<1>9. Whole(Append(M, m), n, a)
  BY <1>2, <1>3, <1>4, <1>8, TrailEnds
<1>10. Whole(sent', sse'.next, early_retries')
  BY <1>6, <1>7, <1>9 DEF M, a
<1>11. sent' \in Seq(EventSet) /\ held' \in Seq(EventSet)
  BY <1>1, <1>10, EmptySeq DEF Whole
<1>12. StreamTypes'
  BY <1>1, <1>11 DEF StreamInv, StreamTypes
<1> QED
  BY <1>1, <1>7, <1>10, <1>12 DEF StreamInv

\* A builder with a block.
LEMMA Positive ==
    ASSUME NEW s, Shape(s), GeneratedOutput(s)
    PROVE  s.next > 0
<1>1. s \in Builder
  BY DEF Shape
<1>2. s.next \in Nat /\ s.tools \in Seq(ToolSet) /\ DOMAIN s.tools = 1..Len(s.tools)
  BY <1>1, LenProperties DEF Builder
<1>3. \A x \in -1..s.next - 1 : x # None => s.next > 0
  BY <1>2 DEF None
<1>4. /\ s.text \in -1..s.next - 1 /\ s.thinking \in -1..s.next - 1
      /\ \A i \in 1..Len(s.tools) : s.tools[i].block \in -1..s.next - 1
  BY DEF Shape
<1> QED
  BY <1>2, <1>3, <1>4 DEF GeneratedOutput, Started

\* All blocks are closed and the message ends.
LEMMA CloseAndEnd ==
    ASSUME StreamInv, NEW s, Keeps(s, sent \o held), s.next > 0,
           NEW reason \in BlockKind, EndWith(CloseAll(s), reason),
           UNCHANGED <<early_retries, finish_reason, thinking, chunks>>
    PROVE  StreamInv'
<1> DEFINE t == CloseAll(s)
           b == sent \o held
<1>1. Closed(t, b) /\ t.next = s.next
  BY Retries, ClosesAll
<1> HIDE DEF t
<1>2. Trail(b \o t.out, t.next, early_retries)
  BY <1>1, ClosedTrail
<1>3. Shape(t) /\ t.next > 0
  BY <1>1 DEF Closed
<1>4. EndWith(t, reason)
  BY DEF t
<1> QED
  BY <1>2, <1>3, <1>4, EndKeeps

LEMMA NoEvents ==
    ASSUME NEW a \in Nat
    PROVE  /\ Shape(NewBuilder) /\ NewBuilder.out = <<>> /\ Started(NewBuilder) = {}
           /\ Agrees(NewBuilder, <<>>, a)
<1> DEFINE none == <<>>
<1>1. /\ none \in Seq(EventSet) /\ Len(none) = 0
      /\ none \in Seq(ToolSet) /\ DOMAIN none = {}
  BY EmptySeq
<1>2. /\ NewBuilder.next = 0 /\ NewBuilder.text = None /\ NewBuilder.thinking = None
      /\ NewBuilder.text_started = FALSE /\ NewBuilder.thinking_started = FALSE
      /\ NewBuilder.tools = none /\ NewBuilder.out = none
      /\ NewBuilder \in Builder
  BY <1>1 DEF NewBuilder, Builder, None
<1> HIDE DEF none
<1>3. Shape(NewBuilder)
  BY <1>1, <1>2, StreamAssumption DEF Shape, None
<1>4. Started(NewBuilder) = {} /\ \A i, c : ~Opens(NewBuilder, i, c)
  BY <1>1, <1>2 DEF Started, Opens
<1>5. Journal(none, 0, a)
  BY <1>1 DEF Journal
<1>6. Agrees(NewBuilder, none, a)
  BY <1>2, <1>4, <1>5 DEF Agrees
<1> QED
  BY <1>2, <1>3, <1>4, <1>6 DEF none

\* An error ends the message, in a block of its own unless there are tools.
LEMMA ErrorTailKeeps ==
    ASSUME StreamInv, phase # "ended", ErrorTail,
           UNCHANGED <<early_retries, finish_reason, thinking, chunks>>
    PROVE  StreamInv'
<1> DEFINE b == sent \o held
           r == IF committed \/ held # <<>> THEN sse ELSE NewBuilder
           s == CloseAll(r)
           t == IF Started(s) # {} THEN Emit(s, Event("error", None, "")) ELSE WholeBlock(s, "text")
<1>1. EndWith(t, "end_turn")
  BY DEF ErrorTail
<1>2. early_retries \in Nat
  BY Retries
<1>3. Keeps(r, b)
  <2>1. CASE committed \/ held # <<>>
    BY <2>1, StreamKeeps
  <2>2. CASE ~(committed \/ held # <<>>)
    <3> DEFINE none == <<>>
    <3>1. sent = none /\ held = none /\ r = NewBuilder
      BY <2>2 DEF StreamInv
    <3>2. none \in Seq(EventSet) /\ none \o none = none
      BY EmptySeq, ConcatEmptySeq
    <3>3. Shape(NewBuilder) /\ NewBuilder.out = none /\ Agrees(NewBuilder, none, early_retries)
      BY <1>2, NoEvents
    <3> HIDE DEF none, r
    <3>4. b = none /\ b \o NewBuilder.out = none
      BY <3>1, <3>2, <3>3
    <3> QED
      BY <3>1, <3>2, <3>3, <3>4 DEF Keeps
  <2> QED
    BY <2>1, <2>2
<1> HIDE DEF r
<1>4. Closed(s, b) /\ s.text_started = FALSE /\ s.thinking_started = FALSE
  BY <1>2, <1>3, ClosesAll
<1> HIDE DEF s
<1>5. Trail(b \o s.out, s.next, early_retries)
  BY <1>4, ClosedTrail
<1>6. s \in Builder /\ Shape(s) /\ b \in Seq(EventSet) /\ s.out \in Seq(EventSet) /\ s.next \in Nat
  BY <1>4 DEF Closed, Shape, Builder
<1>7. Shape(t) /\ t.next > 0 /\ Trail(b \o t.out, t.next, early_retries)
  <2>1. CASE Started(s) # {}
    <3> DEFINE e == Event("error", None, "")
               L == b \o s.out
    <3>1. e \in EventSet /\ e.event = "error" /\ e.attempt = early_retries
      <4>1. "error" \in EventKind /\ "" \in BlockKind
        BY DEF EventKind, BlockKind
      <4>2. None \in Int
        BY DEF None
      <4> QED
        BY <1>2, <4>1, <4>2 DEF Event, EventSet
    <3>2. t = Emit(s, e)
      BY <2>1
    <3> HIDE DEF e, t
    <3>3. /\ t \in Builder /\ t.next = s.next /\ SameContent(t, s) /\ t.tools = s.tools
          /\ t.out = Append(s.out, e)
      BY <1>6, <3>1, <3>2, EmitIs
    <3>4. Shape(t)
      BY <1>6, <3>3 DEF Shape, SameContent
    <3>5. GeneratedOutput(s)
      BY <2>1 DEF GeneratedOutput
    <3>6. t.next > 0
      BY <1>6, <3>3, <3>5, Positive
    <3>7. b \o t.out = Append(L, e)
      BY <1>6, <3>1, <3>3, AppendAfter
    <3> HIDE DEF L
    <3>8. Trail(Append(L, e), s.next, early_retries)
      <4>1. e.event \in {"error", "message_delta"} /\ Trail(L, s.next, early_retries)
        BY <1>5, <3>1 DEF L
      <4> QED
        BY <1>2, <1>6, <3>1, <4>1, TrailGoesOn
    <3> QED
      BY <3>3, <3>4, <3>6, <3>7, <3>8
  <2>2. CASE Started(s) = {}
    <3>1. t = WholeBlock(s, "text") /\ "text" \in Block
      BY <2>2 DEF Block
    <3> HIDE DEF t
    <3>2. \A i, c : ~Opens(s, i, c)
      <4>1. DOMAIN s.tools = 1..Len(s.tools)
        BY <1>6, LenProperties DEF Builder
      <4> QED
        BY <1>4, <2>2, <4>1 DEF Opens, Started
    <3>3. Keeps(s, b)
      BY <1>4, <3>2 DEF Closed, Keeps, Agrees
    <3>4. Keeps(t, b) /\ t.next = s.next + 1 /\ OpensSame(t, s)
      BY <1>2, <3>1, <3>3, KeepsWholeBlock
    <3>5. Closed(t, b)
      BY <3>2, <3>4 DEF Closed, Keeps, Agrees, OpensSame
    <3>6. Trail(b \o t.out, t.next, early_retries)
      BY <3>5, ClosedTrail
    <3>7. t.next > 0
      BY <1>6, <3>4
    <3> QED
      BY <3>5, <3>6, <3>7 DEF Closed
  <2> QED
    BY <2>1, <2>2
<1> HIDE DEF t
<1>8. "end_turn" \in BlockKind
  BY DEF BlockKind
<1> QED
  BY <1>1, <1>7, <1>8, EndKeeps

-----------------------------------------------------------------------------
(* The steps *)

LEMMA StreamInit ==
    ASSUME Init
    PROVE  StreamInv
<1> DEFINE none == <<>>
<1>1. early_retries = 0 /\ chunks = 0 /\ phase = "created" /\ committed = FALSE
      /\ finish_reason = FALSE /\ thinking \in BOOLEAN
  BY DEF Init
<1>2. sse = NewBuilder /\ held = none /\ sent = none
  BY DEF Init
<1>3. none \in Seq(EventSet) /\ none \o none = none
  BY EmptySeq, ConcatEmptySeq
<1>4. Shape(NewBuilder) /\ NewBuilder.out = none /\ Agrees(NewBuilder, none, early_retries)
  BY <1>1, NoEvents
<1> HIDE DEF none
<1>5. StreamTypes
  <2>1. 0 \in 0..ChunkMax /\ 0 \in 0..MaxRetries
    BY StreamAssumption
  <2>2. chunks \in 0..ChunkMax /\ early_retries \in 0..MaxRetries
    BY <1>1, <2>1
  <2>3. sent \in Seq(EventSet) /\ held \in Seq(EventSet)
    BY <1>2, <1>3
  <2>4. /\ phase \in {"created", "opening", "reading", "recovering", "ended"}
        /\ committed \in BOOLEAN /\ finish_reason \in BOOLEAN /\ thinking \in BOOLEAN
    BY <1>1
  <2> QED
    BY <2>2, <2>3, <2>4 DEF StreamTypes
<1>6. Agrees(sse, sent \o held, early_retries)
  BY <1>2, <1>3, <1>4
<1> QED
  BY <1>1, <1>2, <1>4, <1>5, <1>6 DEF StreamInv, none

\* Steps that send nothing and leave the builder alone.
LEMMA StillStreams ==
    ASSUME StreamInv, phase # "ended", UNCHANGED <<sse, held, committed, early_retries, sent>>,
           phase' \in {"opening", "reading", "recovering"},
           finish_reason' \in BOOLEAN, thinking' \in BOOLEAN, chunks' \in 0..ChunkMax
    PROVE  StreamInv'
<1>1. phase' # "ended"
  OBVIOUS
<1>2. StreamTypes'
  BY DEF StreamInv, StreamTypes
<1>3. Agrees(sse', sent' \o held', early_retries')
  BY DEF StreamInv
<1> QED
  BY <1>1, <1>2, <1>3 DEF StreamInv

LEMMA ChunkIs ==
    ASSUME StreamInv, Chunk
    PROVE  /\ phase # "ended" /\ UNCHANGED <<phase, early_retries, thinking>>
           /\ chunks' \in 0..ChunkMax /\ phase' \in {"opening", "reading", "recovering"}
           /\ thinking' \in BOOLEAN /\ finish_reason \in BOOLEAN
           /\ Keeps(sse, sent \o held) /\ early_retries \in Nat
<1>1. phase = "reading" /\ phase' = phase /\ early_retries' = early_retries /\ thinking' = thinking
  BY DEF Chunk
<1>2. chunks' \in 0..ChunkMax
  BY StreamAssumption DEF Chunk, StreamInv, StreamTypes
<1>3. thinking \in BOOLEAN /\ finish_reason \in BOOLEAN
  BY DEF StreamInv, StreamTypes
<1>4. Keeps(sse, sent \o held) /\ early_retries \in Nat
  BY <1>1, StreamKeeps, Retries
<1> QED
  BY <1>1, <1>2, <1>3, <1>4

LEMMA ChunksKeep ==
    ASSUME StreamInv, Upstream
    PROVE  StreamInv'
<1> DEFINE b == sent \o held
<1>1. CASE ThinkingChunk
  <2> DEFINE s == IF thinking THEN Think(sse) ELSE sse
  <2>1. Chunk /\ Push(s) /\ finish_reason' = finish_reason
    BY <1>1 DEF ThinkingChunk
  <2>2. Keeps(s, b)
    BY <2>1, ChunkIs, KeepsThink
  <2> HIDE DEF s
  <2> QED
    BY <2>1, <2>2, ChunkIs, PushKeeps
<1>2. CASE TextChunk
  <2> DEFINE s == Say(sse)
  <2>1. Chunk /\ Push(s) /\ finish_reason' = finish_reason
    BY <1>2 DEF TextChunk
  <2>2. Keeps(s, b)
    BY <2>1, ChunkIs, KeepsSay
  <2> HIDE DEF s
  <2> QED
    BY <2>1, <2>2, ChunkIs, PushKeeps
<1>3. CASE FoundToolChunk
  <2> DEFINE s == FoundTool(sse)
  <2>1. Chunk /\ Push(s) /\ finish_reason' = finish_reason
    BY <1>3 DEF FoundToolChunk
  <2>2. Keeps(s, b)
    BY <2>1, ChunkIs, KeepsFoundTool
  <2> HIDE DEF s
  <2> QED
    BY <2>1, <2>2, ChunkIs, PushKeeps
<1>4. CASE ToolCallChunk
  <2>1. Chunk /\ finish_reason' = finish_reason
    BY <1>4 DEF ToolCallChunk
  <2>2. PICK i \in 1..ToolMax, name \in Name, json \in Json :
           /\ i <= Len(sse.tools) + 1
           /\ \E s \in {WithName(CloseContent(sse), i, name)} :
              \E t \in {WithBlock(s, i)} : Push(WithArgs(t, i, json))
    BY <1>4 DEF ToolCallChunk
  <2> DEFINE c == CloseContent(sse)
             s == WithName(c, i, name)
             t == WithBlock(s, i)
             u == WithArgs(t, i, json)
  <2>3. Push(u)
    BY <2>2
  <2>4. early_retries \in Nat /\ Keeps(sse, b)
    BY <2>1, ChunkIs
  <2> HIDE DEF b
  <2>5. Keeps(c, b) /\ c.tools = sse.tools
    BY <2>4, KeepsCloseContent
  <2> HIDE DEF c
  <2>6. Keeps(s, b) /\ i \in 1..Len(s.tools)
    BY <2>2, <2>4, <2>5, KeepsWithName
  <2> HIDE DEF s
  <2>7. Keeps(t, b) /\ i \in 1..Len(t.tools)
    BY <2>4, <2>6, KeepsWithBlock
  <2> HIDE DEF t
  <2>8. Keeps(u, b)
    BY <2>4, <2>7, KeepsWithArgs
  <2> HIDE DEF u
  <2> QED
    BY <2>1, <2>3, <2>8, ChunkIs, PushKeeps DEF b
<1>5. CASE FinishChunk
  BY <1>5, ChunkIs, StillStreams DEF FinishChunk
<1> QED
  BY <1>1, <1>2, <1>3, <1>4, <1>5 DEF Upstream

LEMMA CompleteKeeps ==
    ASSUME StreamInv, Complete
    PROVE  StreamInv'
<1> DEFINE b == sent \o held
<1>1. phase # "ended" /\ UNCHANGED <<early_retries, finish_reason, thinking, chunks>>
  BY DEF Complete
<1>2. Keeps(sse, b) /\ early_retries \in Nat
  BY <1>1, StreamKeeps, Retries
<1>3. PICK rest \in {"", "text", "thinking"}, tool \in BOOLEAN :
          \E a \in {IF rest = "text" THEN Say(sse)
                    ELSE IF rest = "thinking" /\ thinking THEN Think(sse)
                    ELSE sse} :
          \E c \in {IF tool THEN FoundTool(a) ELSE a} :
             \/ /\ GeneratedOutput(c)
                /\ EndWith(CloseAll(FlushTools(c)), "finished")
             \/ /\ Started(c) = {} /\ (c.text = None \/ c.thinking # None)
                /\ EndWith(CloseAll(FlushTools(Say(c))), "finished")
  BY DEF Complete
<1> DEFINE a == IF rest = "text" THEN Say(sse)
                ELSE IF rest = "thinking" /\ thinking THEN Think(sse)
                ELSE sse
           c == IF tool THEN FoundTool(a) ELSE a
<1>4. \/ GeneratedOutput(c) /\ EndWith(CloseAll(FlushTools(c)), "finished")
      \/ EndWith(CloseAll(FlushTools(Say(c))), "finished")
  BY <1>3
<1> HIDE DEF b
<1>5. Keeps(a, b)
  BY <1>2, KeepsSay, KeepsThink
<1> HIDE DEF a
<1>6. Keeps(c, b)
  BY <1>2, <1>5, KeepsFoundTool
<1> HIDE DEF c
<1>7. "finished" \in BlockKind
  BY DEF BlockKind
<1>8. ASSUME NEW d, Keeps(d, b), GeneratedOutput(d), EndWith(CloseAll(FlushTools(d)), "finished")
      PROVE  StreamInv'
  <2>1. Keeps(FlushTools(d), b) /\ FlushTools(d).next = d.next
    BY <1>2, <1>8, KeepsFlushTools
  <2>2. d.next > 0
    BY <1>8, Positive DEF Keeps
  <2>3. FlushTools(d).next > 0
    BY <2>1, <2>2
  <2> QED
    BY <1>1, <1>7, <1>8, <2>1, <2>3, CloseAndEnd DEF b
<1>9. Keeps(Say(c), b) /\ GeneratedOutput(Say(c))
  <2>1. Keeps(Say(c), b) /\ Say(c).text_started = TRUE
    BY <1>2, <1>6, KeepsSay
  <2> QED
    BY <2>1 DEF Keeps, Shape, GeneratedOutput
<1> QED
  BY <1>4, <1>6, <1>8, <1>9

LEMMA BreakKeeps ==
    ASSUME StreamInv, Break
    PROVE  StreamInv'
<1>1. phase = "reading" /\ UNCHANGED <<thinking, chunks>>
  BY DEF Break
<1>2. CASE MayRetry /\ Retried /\ UNCHANGED <<committed, sent>>
  <2> DEFINE none == <<>>
  <2>1. /\ ~committed /\ early_retries < MaxRetries
        /\ early_retries' = early_retries + 1 /\ held' = none /\ sse' = NewBuilder
        /\ finish_reason' = FALSE /\ phase' = "opening"
        /\ committed' = committed /\ sent' = sent
    BY <1>2 DEF MayRetry, Retried
  <2>2. sent' = none
    BY <2>1 DEF StreamInv
  <2>3. none \in Seq(EventSet) /\ none \o none = none
    BY EmptySeq, ConcatEmptySeq
  <2>4. early_retries' \in 0..MaxRetries /\ early_retries' \in Nat
    BY <2>1, StreamAssumption DEF StreamInv, StreamTypes
  <2>5. Shape(NewBuilder) /\ NewBuilder.out = none /\ Agrees(NewBuilder, none, early_retries')
    BY <2>4, NoEvents
  <2> HIDE DEF none
  <2>6. StreamTypes'
    BY <1>1, <2>1, <2>2, <2>3, <2>4 DEF StreamInv, StreamTypes
  <2>7. Agrees(sse', sent' \o held', early_retries')
    BY <2>1, <2>2, <2>3, <2>5
  <2> QED
    BY <2>1, <2>2, <2>5, <2>6, <2>7 DEF StreamInv, none
<1>3. CASE /\ phase' = "recovering"
           /\ UNCHANGED <<sse, held, committed, early_retries, finish_reason, sent>>
  BY <1>1, <1>3, StillStreams DEF StreamInv, StreamTypes
<1>4. CASE ErrorTail /\ UNCHANGED <<early_retries, finish_reason>>
  BY <1>1, <1>4, ErrorTailKeeps
<1> QED
  BY <1>2, <1>3, <1>4 DEF Break

\* What the model supplied completes the arguments; the blocks stay as they are.
LEMMA Repaired ==
    ASSUME NEW s \in Builder, NEW I
    PROVE  LET u == [i \in DOMAIN s.tools |->
                        IF i \in I THEN [s.tools[i] EXCEPT !.json = "complete"] ELSE s.tools[i]]
           IN  /\ u \in Seq(ToolSet) /\ Len(u) = Len(s.tools)
               /\ \A j \in 1..Len(s.tools) : u[j].block = s.tools[j].block
<1> DEFINE x(i) == IF i \in I THEN [s.tools[i] EXCEPT !.json = "complete"] ELSE s.tools[i]
           u == [i \in DOMAIN s.tools |-> x(i)]
           n == Len(s.tools)
<1>1. n \in Nat /\ DOMAIN s.tools = 1..n
  BY LenProperties DEF Builder
<1>2. ASSUME NEW i \in 1..n PROVE x(i) \in ToolSet /\ x(i).block = s.tools[i].block
  <2>1. s.tools[i] \in ToolSet
    BY <1>2, ToolAt
  <2>2. "complete" \in Json
    BY DEF Json
  <2> QED
    BY <2>1, <2>2 DEF ToolSet
<1> HIDE DEF x, n
<1>3. u \in [1..n -> ToolSet] /\ \A j \in 1..n : u[j] = x(j)
  BY <1>1, <1>2
<1>4. u \in Seq(ToolSet) /\ Len(u) = n
  BY <1>1, <1>3, SeqDef, LenProperties
<1> HIDE DEF u
<1>5. \A j \in 1..n : u[j].block = s.tools[j].block
  BY <1>2, <1>3
<1> QED
  BY <1>4, <1>5 DEF u, x, n

LEMMA RepairKeeps ==
    ASSUME StreamInv, RepairTools
    PROVE  StreamInv'
<1> DEFINE b == sent \o held
           I == {i \in Started(sse) : sse.tools[i].json # "complete"}
           q == ToolEvents(sse, I, "delta")
           u == [i \in DOMAIN sse.tools |->
                    IF i \in I THEN [sse.tools[i] EXCEPT !.json = "complete"] ELSE sse.tools[i]]
           r == [sse EXCEPT !.out = q]
           t == [r EXCEPT !.tools = u]
<1>1. /\ phase # "ended" /\ Started(sse) # {} /\ EndWith(CloseAll(t), "tool_use")
      /\ UNCHANGED <<early_retries, finish_reason, thinking, chunks>>
  <2>1. [sse EXCEPT !.out = q, !.tools = u] = t
    OBVIOUS
  <2> QED
    BY <2>1 DEF RepairTools
<1>2. /\ early_retries \in Nat /\ Keeps(sse, b) /\ sse.out = <<>>
  BY <1>1, StreamKeeps, Retries DEF StreamInv
<1>3. I \in SUBSET Started(sse)
  OBVIOUS
<1>4. sse \in Builder /\ b \in Seq(EventSet) /\ b \o sse.out = b
  BY <1>2, KeptJournal, ConcatEmptySeq
<1> HIDE DEF I, b
<1>5. /\ q \in Seq(EventSet)
      /\ Journal(b \o q, sse.next, early_retries)
      /\ \A i : StaysOpen(b, b \o q, i)
      /\ StayStopped(b, b \o q)
  <2>1. LET M == (b \o sse.out) \o q
        IN  /\ q \in Seq(EventSet)
            /\ Journal(M, sse.next, early_retries)
            /\ \A i : StaysOpen(b \o sse.out, M, i)
            /\ StayStopped(b \o sse.out, M)
    BY <1>2, <1>3, ToolDeltas
  <2> QED
    BY <1>4, <2>1
<1>6. /\ \A i, c : Opens(sse, i, c) => OpenIn(b, i, c)
      /\ \A i \in 0..sse.next - 1 : StoppedIn(b, i) \/ \E c : Opens(sse, i, c)
  <2>1. /\ \A i, c : Opens(sse, i, c) => OpenIn(b \o sse.out, i, c)
        /\ \A i \in 0..sse.next - 1 : StoppedIn(b \o sse.out, i) \/ \E c : Opens(sse, i, c)
    BY <1>2, KeptJournal
  <2> QED
    BY <1>4, <2>1
<1>7. /\ u \in Seq(ToolSet) /\ Len(u) = Len(sse.tools)
      /\ \A j \in 1..Len(sse.tools) : u[j].block = sse.tools[j].block
  BY <1>4, Repaired
<1> HIDE DEF q, u
<1>8. r \in Builder /\ r.next = sse.next /\ SameContent(r, sse) /\ r.tools = sse.tools /\ r.out = q
  BY <1>4, <1>5, PutOut
<1> HIDE DEF r
<1>9. t \in Builder /\ t.next = r.next /\ SameContent(t, r) /\ t.out = r.out /\ t.tools = u
  BY <1>7, <1>8, PutTools
<1> HIDE DEF t
<1>10. SameBlocks(t, sse)
  BY <1>7, <1>8, <1>9 DEF SameBlocks, SameContent
<1>11. Shape(t) /\ OpensSame(t, sse)
  BY <1>2, <1>10, SameBlocksKeep DEF Keeps
<1>12. t.out = q /\ t.next = sse.next
  BY <1>8, <1>9
<1>13. Agrees(t, b \o q, early_retries)
  BY <1>5, <1>6, <1>11, <1>12 DEF Agrees, OpensSame, StaysOpen, StayStopped
<1>14. Keeps(t, b)
  BY <1>4, <1>11, <1>12, <1>13 DEF Keeps
<1>15. t.next > 0
  <2>1. GeneratedOutput(sse)
    BY <1>1 DEF GeneratedOutput
  <2>2. sse.next > 0
    BY <1>2, <2>1, Positive DEF Keeps
  <2> QED
    BY <1>12, <2>2
<1>16. "tool_use" \in BlockKind
  BY DEF BlockKind, Block
<1> QED
  BY <1>1, <1>14, <1>15, <1>16, CloseAndEnd DEF b

LEMMA ContinueKeeps ==
    ASSUME StreamInv, ContinueText
    PROVE  StreamInv'
<1> DEFINE b == sent \o held
<1>1. phase # "ended" /\ UNCHANGED <<early_retries, finish_reason, thinking, chunks>>
  BY DEF ContinueText
<1>2. PICK more \in (SUBSET {"thinking", "text"}) \ {{}} :
         LET t == IF "thinking" \in more THEN Think(sse) ELSE sse
         IN  EndWith(CloseAll(IF "text" \in more THEN Say(t) ELSE t), "end_turn")
  BY DEF ContinueText
<1> DEFINE t == IF "thinking" \in more THEN Think(sse) ELSE sse
           u == IF "text" \in more THEN Say(t) ELSE t
<1>3. EndWith(CloseAll(u), "end_turn")
  BY <1>2
<1>4. early_retries \in Nat /\ Keeps(sse, b)
  BY <1>1, StreamKeeps, Retries
<1> HIDE DEF b
<1>5. Keeps(t, b) /\ ("thinking" \in more => t.thinking_started = TRUE)
  BY <1>4, KeepsThink
<1> HIDE DEF t
<1>6. Keeps(u, b) /\ (u.text_started = TRUE \/ u.thinking_started = TRUE)
  <2>1. CASE "text" \in more
    BY <1>4, <1>5, <2>1, KeepsSay
  <2>2. CASE "text" \notin more
    <3>1. "thinking" \in more
      BY <2>2
    <3> QED
      BY <1>5, <2>2, <3>1
  <2> QED
    BY <2>1, <2>2
<1> HIDE DEF u
<1>7. u.next > 0
  <2>1. GeneratedOutput(u)
    BY <1>6 DEF Keeps, Shape, GeneratedOutput
  <2> QED
    BY <1>6, <2>1, Positive DEF Keeps
<1>8. "end_turn" \in BlockKind
  BY DEF BlockKind
<1> QED
  BY <1>1, <1>3, <1>6, <1>7, <1>8, CloseAndEnd DEF b

\* Every step of the transport keeps the journal.
LEMMA StreamNext ==
    ASSUME StreamInv, [Next]_vars
    PROVE  StreamInv'
<1>1. finish_reason \in BOOLEAN /\ thinking \in BOOLEAN /\ chunks \in 0..ChunkMax
  BY DEF StreamInv, StreamTypes
<1>2. CASE Begin
  BY <1>1, <1>2, StillStreams DEF Begin
<1>3. CASE Open
  BY <1>1, <1>3, StillStreams DEF Open
<1>4. CASE OpenFails
  BY <1>4, ErrorTailKeeps DEF OpenFails
<1>5. CASE Upstream
  BY <1>5, ChunksKeep
<1>6. CASE Complete
  BY <1>6, CompleteKeeps
<1>7. CASE Break
  BY <1>7, BreakKeeps
<1>8. CASE BreakForGood
  BY <1>8, ErrorTailKeeps DEF BreakForGood
<1>9. CASE RepairTools
  BY <1>9, RepairKeeps
<1>10. CASE ContinueText
  BY <1>10, ContinueKeeps
<1>11. CASE RecoveryFails
  BY <1>11, ErrorTailKeeps DEF RecoveryFails
<1>12. CASE UNCHANGED vars
  BY <1>12 DEF vars, StreamInv, StreamTypes, Shape, Agrees, Journal, Whole
<1> QED
  BY <1>2, <1>3, <1>4, <1>5, <1>6, <1>7, <1>8, <1>9, <1>10, <1>11, <1>12 DEF Next

-----------------------------------------------------------------------------
(* What the client has *)

LEMMA SentSoFar ==
    ASSUME StreamInv
    PROVE  /\ sent \in Seq(EventSet)
           /\ \A k \in 1..Len(sent) :
                 /\ InPlace(sent, k) /\ sent[k].attempt = early_retries
                 /\ sent[k].event = "message_stop" => k = Len(sent)
<1>1. sent \in Seq(EventSet)
  BY DEF StreamInv, StreamTypes
<1>2. CASE phase = "ended"
  BY <1>1, <1>2 DEF StreamInv, Whole
<1>3. CASE phase # "ended" /\ committed
  <2>1. held = <<>> /\ Agrees(sse, sent \o held, early_retries)
    BY <1>3 DEF StreamInv
  <2>2. sent \o held = sent
    BY <1>1, <2>1, ConcatEmptySeq
  <2>3. Journal(sent, sse.next, early_retries)
    BY <2>1, <2>2 DEF Agrees
  <2> QED
    BY <1>1, <2>3 DEF Journal
<1>4. CASE ~committed
  <2>1. sent = <<>>
    BY <1>4 DEF StreamInv
  <2>2. 1..Len(sent) = {}
    BY <2>1, EmptySeq
  <2> QED
    BY <1>1, <2>2
<1> QED
  BY <1>2, <1>3, <1>4 DEF StreamInv, StreamTypes

LEMMA SentIsTyped == ASSUME StreamInv PROVE TypeOK
<1>1. sse \in Builder /\ Shape(sse) /\ sse.out = <<>>
  BY DEF StreamInv, Shape
<1>2. DOMAIN sse = DOMAIN NewBuilder
  BY <1>1 DEF Builder, NewBuilder
<1>3. /\ sse.next \in Nat /\ sse.text < sse.next /\ sse.thinking < sse.next
      /\ sse.text_started => sse.text # None
      /\ sse.thinking_started => sse.thinking # None
      /\ ~(sse.text_started /\ sse.thinking_started)
      /\ Len(sse.tools) <= ToolMax
  BY <1>1 DEF Shape, Builder
<1>4. ASSUME NEW i \in DOMAIN sse.tools
      PROVE  /\ sse.tools[i].name \in Name
             /\ {sse.tools[i].json, sse.tools[i].buffer} \subseteq Json
             /\ sse.tools[i].block < sse.next
  <2>1. i \in 1..Len(sse.tools)
    BY <1>1, <1>4, LenProperties DEF Builder
  <2>2. sse.tools[i] \in ToolSet
    BY <1>1, <2>1, ToolAt
  <2>3. sse.tools[i].block < sse.next
    BY <1>1, <1>3, <2>1 DEF Shape
  <2> QED
    BY <2>2, <2>3 DEF ToolSet
<1>5. /\ phase \in {"created", "opening", "reading", "recovering", "ended"}
      /\ {finish_reason, thinking, committed} \subseteq BOOLEAN
      /\ early_retries \in 0..MaxRetries /\ chunks \in 0..ChunkMax
      /\ committed => held = <<>>
  BY DEF StreamInv, StreamTypes
<1> QED
  BY <1>1, <1>2, <1>3, <1>4, <1>5 DEF TypeOK

LEMMA SentIsWellFormed == ASSUME StreamInv PROVE WellFormed
<1>1. sent \in Seq(EventSet) /\ DOMAIN sent = 1..Len(sent)
  BY SentSoFar, LenProperties
<1>2. ASSUME NEW k \in DOMAIN sent
      PROVE  /\ sent[k].event = "start" =>
                   \A j \in 1..k - 1 : ~Is(j, "start", sent[k].index)
             /\ sent[k].event \in {"delta", "stop"} =>
                   /\ \E j \in 1..k - 1 :
                         Is(j, "start", sent[k].index) /\ sent[j].block = sent[k].block
                   /\ \A j \in 1..k - 1 : ~Is(j, "stop", sent[k].index)
             /\ sent[k].event = "message_stop" => k = Len(sent)
  <2>1. InPlace(sent, k) /\ (sent[k].event = "message_stop" => k = Len(sent))
    BY <1>1, <1>2, SentSoFar
  <2> QED
    BY <2>1 DEF InPlace, StartAt, StopAt, Is
<1> QED
  BY <1>2 DEF WellFormed

LEMMA SentOnce == ASSUME StreamInv PROVE OneAttempt
<1>1. DOMAIN sent = 1..Len(sent)
  BY SentSoFar, LenProperties
<1> QED
  BY <1>1, SentSoFar DEF OneAttempt

LEMMA SentWhole == ASSUME StreamInv, phase = "ended" PROVE WholeAtEnd /\ NothingHeldIsLost
<1>1. held = <<>> /\ Whole(sent, sse.next, early_retries) /\ sse.next \in Nat
  BY DEF StreamInv, Shape, Builder
<1>2. DOMAIN sent = 1..Len(sent) /\ Len(sent) \in Nat
  BY SentSoFar, LenProperties
<1>3. /\ sse.next > 0 /\ Len(sent) > 0 /\ sent[Len(sent)].event = "message_stop"
      /\ \A k \in 1..Len(sent) : sent[k].event = "start" => sent[k].index \in 0..sse.next - 1
      /\ \A i \in 0..sse.next - 1 : StoppedIn(sent, i) /\ \E k \in 1..Len(sent) : StartAt(sent, k, i)
  BY <1>1 DEF Whole
<1>4. Last(sent).event = "message_stop"
  BY <1>3 DEF Last
<1>5. \E k \in DOMAIN sent : sent[k].event = "start"
  <2>1. 0 \in 0..sse.next - 1
    BY <1>1, <1>3
  <2>2. PICK k \in 1..Len(sent) : StartAt(sent, k, 0)
    BY <1>3, <2>1
  <2> QED
    BY <1>2, <2>2 DEF StartAt
<1>6. ASSUME NEW k \in DOMAIN sent, sent[k].event = "start"
      PROVE  \E j \in DOMAIN sent : Is(j, "stop", sent[k].index)
  <2>1. StoppedIn(sent, sent[k].index)
    BY <1>2, <1>3, <1>6
  <2> QED
    BY <1>2, <2>1 DEF StoppedIn, StopAt, Is
<1>7. {sent[k].index : k \in {j \in DOMAIN sent : sent[j].event = "start"}} = 0..sse.next - 1
  <2> DEFINE X == {sent[k].index : k \in {j \in DOMAIN sent : sent[j].event = "start"}}
  <2>1. ASSUME NEW i \in X PROVE i \in 0..sse.next - 1
    BY <1>2, <1>3, <2>1
  <2>2. ASSUME NEW i \in 0..sse.next - 1 PROVE i \in X
    <3>1. PICK k \in 1..Len(sent) : StartAt(sent, k, i)
      BY <1>3, <2>2
    <3> QED
      BY <1>2, <3>1 DEF StartAt
  <2> HIDE DEF X
  <2>3. X = 0..sse.next - 1
    BY <2>1, <2>2
  <2> QED
    BY <2>3 DEF X
<1> QED
  BY <1>1, <1>4, <1>5, <1>6, <1>7 DEF WholeAtEnd, NothingHeldIsLost

LEMMA StreamInvIsWhole == ASSUME StreamInv PROVE StreamIsWhole
<1>1. WholeAtEnd /\ NothingHeldIsLost
  <2>1. CASE phase = "ended"
    BY <2>1, SentWhole
  <2>2. CASE phase # "ended"
    BY <2>2 DEF WholeAtEnd, NothingHeldIsLost
  <2> QED
    BY <2>1, <2>2
<1> QED
  BY <1>1, SentIsTyped, SentIsWellFormed, SentOnce DEF StreamIsWhole

\* A client can replay the stream: however upstream's chunks come, wherever an
\* attempt breaks off, and whether it is retried, mended or given up, the blocks
\* that went out are well formed and of one attempt at every moment, and when the
\* message is over it is complete and holds every block of the builder
\* (openai_compat.py: _stream_response_impl; sse.py: SSEBuilder).
THEOREM StreamsWhole == Spec => []StreamIsWhole
<1>1. Init => StreamInv
  BY StreamInit
<1>2. StreamInv /\ [Next]_vars => StreamInv'
  BY StreamNext
<1>3. StreamInv => StreamIsWhole
  BY StreamInvIsWhole
<1> QED
  BY <1>1, <1>2, <1>3, PTL DEF Spec

-----------------------------------------------------------------------------
(* What mends a broken answer. *)

LEMMA PrefixIs ==
    ASSUME NEW P, NEW s \in Seq(P), NEW t \in Seq(P)
    PROVE  IsPrefix(s, t) <=> Len(s) <= Len(t) /\ \A i \in 1..Len(s) : s[i] = t[i]
<1>1. Len(s) \in Nat /\ Len(t) \in Nat
  BY LenProperties
<1>2. SubSeq(s, 1, Len(s)) = s
  BY SubSeqFull
<1>3. CASE Len(s) <= Len(t)
  <2> DEFINE u == SubSeq(t, 1, Len(s))
  <2>1. u \in Seq(P) /\ Len(u) = Len(s) /\ \A i \in 1..Len(s) : u[i] = t[i]
    <3>1. \A i \in 1..Len(s) : t[i] \in P
      BY <1>1, <1>3, ElementOfSeq
    <3>2. /\ u \in Seq(P) /\ Len(u) = IF 1 <= Len(s) THEN Len(s) - 1 + 1 ELSE 0
          /\ \A i \in 1..Len(s) - 1 + 1 : u[i] = t[1 + i - 1]
      BY <1>1, <3>1, SubSeqProperties
    <3> QED
      BY <1>1, <3>2
  <2> HIDE DEF u
  <2>2. (\A i \in 1..Len(s) : s[i] = t[i]) => s = u
    BY <2>1, SeqEqual
  <2>3. s = u => \A i \in 1..Len(s) : s[i] = t[i]
    BY <2>1
  <2> QED
    BY <1>2, <1>3, <2>2, <2>3 DEF IsPrefix, u
<1>4. CASE ~(Len(s) <= Len(t))
  BY <1>4 DEF IsPrefix
<1> QED
  BY <1>3, <1>4

LEMMA SuffixIs ==
    ASSUME NEW P, NEW s \in Seq(P), NEW t \in Seq(P)
    PROVE  IsSuffix(s, t) <=>
              Len(s) <= Len(t) /\ \A i \in 1..Len(s) : s[i] = t[Len(t) - Len(s) + i]
<1> DEFINE a == Reverse(s)
           b == Reverse(t)
<1>1. Len(s) \in Nat /\ Len(t) \in Nat /\ DOMAIN s = 1..Len(s) /\ DOMAIN t = 1..Len(t)
  BY LenProperties
<1>2. \A i \in 1..Len(s) : s[i] \in P
  BY ElementOfSeq
<1>3. \A i \in 1..Len(t) : t[i] \in P
  BY ElementOfSeq
<1>4. a \in Seq(P) /\ Len(a) = Len(s) /\ \A i \in 1..Len(s) : a[i] = s[Len(s) - i + 1]
  <2>1. a = [i \in 1..Len(s) |-> s[(Len(s) - i) + 1]]
    BY DEF Reverse
  <2>2. \A i \in 1..Len(s) : (Len(s) - i) + 1 \in 1..Len(s)
    BY <1>1
  <2>3. a \in [1..Len(s) -> P]
    BY <1>2, <2>1, <2>2
  <2>4. a \in Seq(P)
    BY <1>1, <2>3
  <2> QED
    BY <1>1, <2>1, <2>4
<1>5. b \in Seq(P) /\ Len(b) = Len(t) /\ \A i \in 1..Len(t) : b[i] = t[Len(t) - i + 1]
  <2>1. b = [i \in 1..Len(t) |-> t[(Len(t) - i) + 1]]
    BY DEF Reverse
  <2>2. \A i \in 1..Len(t) : (Len(t) - i) + 1 \in 1..Len(t)
    BY <1>1
  <2>3. b \in [1..Len(t) -> P]
    BY <1>3, <2>1, <2>2
  <2>4. b \in Seq(P)
    BY <1>1, <2>3
  <2> QED
    BY <1>1, <2>1, <2>4
<1>6. IsSuffix(s, t) <=> IsPrefix(a, b)
  BY DEF IsSuffix
<1> HIDE DEF a, b
<1>7. IsSuffix(s, t) <=> Len(s) <= Len(t) /\ \A i \in 1..Len(s) : a[i] = b[i]
  BY <1>4, <1>5, <1>6, PrefixIs
<1>8. ASSUME Len(s) <= Len(t)
      PROVE  (\A i \in 1..Len(s) : a[i] = b[i])
             <=> \A i \in 1..Len(s) : s[i] = t[Len(t) - Len(s) + i]
  <2>1. ASSUME \A i \in 1..Len(s) : a[i] = b[i], NEW i \in 1..Len(s)
        PROVE  s[i] = t[Len(t) - Len(s) + i]
    <3>1. Len(s) - i + 1 \in 1..Len(s) /\ Len(s) - (Len(s) - i + 1) + 1 = i
          /\ Len(t) - (Len(s) - i + 1) + 1 = Len(t) - Len(s) + i
          /\ Len(s) - i + 1 \in 1..Len(t)
      BY <1>1, <1>8
    <3> QED
      BY <2>1, <3>1, <1>4, <1>5
  <2>2. ASSUME \A i \in 1..Len(s) : s[i] = t[Len(t) - Len(s) + i], NEW i \in 1..Len(s)
        PROVE  a[i] = b[i]
    <3>1. Len(s) - i + 1 \in 1..Len(s) /\ Len(t) - Len(s) + (Len(s) - i + 1) = Len(t) - i + 1
          /\ i \in 1..Len(t)
      BY <1>1, <1>8
    <3> QED
      BY <2>2, <3>1, <1>4, <1>5
  <2> QED
    BY <2>1, <2>2
<1> QED
  BY <1>7, <1>8

LEMMA RestIs ==
    ASSUME NEW P, NEW s \in Seq(P), NEW n \in 0..Len(s)
    PROVE  /\ Rest(s, n) \in Seq(P) /\ Len(Rest(s, n)) = Len(s) - n
           /\ \A i \in 1..Len(s) - n : Rest(s, n)[i] = s[n + i]
<1>1. Len(s) \in Nat
  BY LenProperties
<1>2. \A i \in n + 1..Len(s) : s[i] \in P
  BY <1>1, ElementOfSeq
<1>3. n + 1 \in Int /\ Len(s) \in Int
  BY <1>1
<1> DEFINE m == n + 1
           u == SubSeq(s, m, Len(s))
<1>4. /\ u \in Seq(P) /\ Len(u) = IF m <= Len(s) THEN Len(s) - m + 1 ELSE 0
      /\ \A i \in 1..Len(s) - m + 1 : u[i] = s[m + i - 1]
  BY <1>2, <1>3, SubSeqProperties
<1>5. Rest(s, n) = u
  BY DEF Rest
<1> HIDE DEF u
<1> QED
  BY <1>1, <1>4, <1>5

\* A text goes on with a reply from its k-th letter on: the text then ends with
\* the reply just if it ended with the first k letters of it.
LEMMA GoesOn ==
    ASSUME NEW P, NEW e \in Seq(P), NEW c \in Seq(P), NEW k \in 0..Len(c)
    PROVE  IsSuffix(c, e \o Rest(c, k)) <=>
              k <= Len(e) /\ \A i \in 1..k : c[i] = e[Len(e) - k + i]
<1> DEFINE r == Rest(c, k)
           M == e \o r
<1>1. Len(e) \in Nat /\ Len(c) \in Nat
  BY LenProperties
<1>2. r \in Seq(P) /\ Len(r) = Len(c) - k /\ \A i \in 1..Len(c) - k : r[i] = c[k + i]
  BY RestIs
<1> HIDE DEF r
<1>3. /\ M \in Seq(P) /\ Len(M) = Len(e) + Len(r)
      /\ \A i \in 1..Len(e) + Len(r) : M[i] = IF i <= Len(e) THEN e[i] ELSE r[i - Len(e)]
  BY <1>2, ConcatProperties
<1> HIDE DEF M
<1>4. IsSuffix(c, M) <=> Len(c) <= Len(M) /\ \A i \in 1..Len(c) : c[i] = M[Len(M) - Len(c) + i]
  BY <1>3, SuffixIs
<1>5. Len(M) = Len(e) + Len(c) - k /\ (Len(c) <= Len(M) <=> k <= Len(e))
      /\ Len(M) - Len(c) = Len(e) - k
  BY <1>1, <1>2, <1>3
<1>6. ASSUME k <= Len(e), NEW i \in 1..Len(c)
      PROVE  M[Len(M) - Len(c) + i] = IF i <= k THEN e[Len(e) - k + i] ELSE c[i]
  <2>1. Len(M) - Len(c) + i = Len(e) - k + i /\ Len(e) - k + i \in 1..Len(e) + Len(r)
        /\ (Len(e) - k + i <= Len(e) <=> i <= k)
    BY <1>1, <1>2, <1>5, <1>6
  <2>2. CASE i <= k
    BY <2>1, <2>2, <1>3
  <2>3. CASE ~(i <= k)
    <3> DEFINE j == Len(e) - k + i
    <3>1. j \in 1..Len(e) + Len(r) /\ ~(j <= Len(e)) /\ Len(M) - Len(c) + i = j
      BY <2>1, <2>3
    <3>2. j - Len(e) = i - k /\ i - k \in 1..Len(c) - k /\ k + (i - k) = i
      BY <2>3, <1>1
    <3> HIDE DEF j
    <3>3. M[j] = r[j - Len(e)]
      BY <3>1, <1>3
    <3>4. r[i - k] = c[k + (i - k)]
      BY <3>2, <1>2
    <3> QED
      BY <2>3, <3>1, <3>2, <3>3, <3>4
  <2> QED
    BY <2>2, <2>3
<1>7. ASSUME k <= Len(e)
      PROVE  (\A i \in 1..Len(c) : c[i] = M[Len(M) - Len(c) + i])
             <=> \A i \in 1..k : c[i] = e[Len(e) - k + i]
  <2>1. \A i \in 1..k : i \in 1..Len(c) /\ i <= k
    BY <1>1
  <2>2. \A i \in 1..Len(c) : i \in 1..k \/ ~(i <= k)
    BY <1>1
  <2> DEFINE N(i) == M[Len(M) - Len(c) + i]
             f(i) == e[Len(e) - k + i]
  <2>3. \A i \in 1..Len(c) : N(i) = IF i <= k THEN f(i) ELSE c[i]
    BY <1>6, <1>7
  <2> HIDE DEF N, f
  <2>4. (\A i \in 1..Len(c) : c[i] = N(i)) <=> \A i \in 1..k : c[i] = f(i)
    BY <2>1, <2>2, <2>3
  <2> QED
    BY <2>4 DEF N, f
<1> QED
  BY <1>4, <1>5, <1>7 DEF M, r

\* The overlap is the longest.
LEMMA OverlapIs ==
    ASSUME NEW P, NEW e \in Seq(P), NEW c \in Seq(P)
    PROVE  LET n == Overlap(e, c)
           IN  /\ n \in 0..Len(c)
               /\ IsSuffix(c, e \o Rest(c, n))
               /\ \A k \in n + 1..Len(c) : ~IsSuffix(c, e \o Rest(c, k))
<1> DEFINE n == Overlap(e, c)
           sizes == {k \in 1..Len(c) : IsSuffix(SubSeq(c, 1, k), e)}
           meets(k) == k <= Len(e) /\ \A i \in 1..k : c[i] = e[Len(e) - k + i]
<1>1. Len(c) \in Nat /\ Len(e) \in Nat
  BY LenProperties
<1>2. n = IF sizes = {} THEN 0 ELSE CHOOSE k \in sizes : \A j \in sizes : k >= j
  BY DEF Overlap
<1>3. ASSUME NEW k \in 1..Len(c) PROVE IsSuffix(SubSeq(c, 1, k), e) <=> meets(k)
  <2> DEFINE u == SubSeq(c, 1, k)
  <2>1. \A i \in 1..k : c[i] \in P
    BY <1>1, ElementOfSeq
  <2>2. /\ u \in Seq(P) /\ Len(u) = IF 1 <= k THEN k - 1 + 1 ELSE 0
        /\ \A i \in 1..k - 1 + 1 : u[i] = c[1 + i - 1]
    BY <2>1, SubSeqProperties
  <2>3. u \in Seq(P) /\ Len(u) = k /\ \A i \in 1..k : u[i] = c[i]
    BY <2>2
  <2> HIDE DEF u
  <2>4. IsSuffix(u, e) <=> Len(u) <= Len(e) /\ \A i \in 1..Len(u) : u[i] = e[Len(e) - Len(u) + i]
    BY <2>3, SuffixIs
  <2> QED
    BY <2>3, <2>4 DEF u
<1>4. ASSUME NEW k \in 0..Len(c) PROVE IsSuffix(c, e \o Rest(c, k)) <=> meets(k)
  BY GoesOn
<1>5. sizes \subseteq 1..Len(c)
  OBVIOUS
<1>6. \A k \in 1..Len(c) : k \in sizes <=> IsSuffix(c, e \o Rest(c, k))
  <2> HIDE DEF meets
  <2> QED
    BY <1>1, <1>3, <1>4
<1> HIDE DEF sizes, n
<1>7. CASE sizes = {}
  <2>1. n = 0 /\ 0 \in 0..Len(c) /\ meets(0)
    BY <1>1, <1>2, <1>7
  <2>2. IsSuffix(c, e \o Rest(c, 0))
    BY <2>1, <1>4
  <2>3. \A k \in 0 + 1..Len(c) : ~IsSuffix(c, e \o Rest(c, k))
    BY <1>6, <1>7
  <2> QED
    BY <2>1, <2>2, <2>3 DEF n
<1>8. CASE sizes # {}
  <2> DEFINE T == {Len(c) - k + 1 : k \in sizes}
  <2>1. T \subseteq 1..Len(c) /\ T # {}
    <3>1. \A k \in sizes : Len(c) - k + 1 \in 1..Len(c)
      BY <1>1, <1>5
    <3> QED
      BY <3>1, <1>8
  <2>2. PICK m \in T : \A k \in T : m <= k
    <3> HIDE DEF T
    <3> QED
      BY <1>1, <2>1, LeastIndex
  <2>3. PICK l \in sizes : m = Len(c) - l + 1
    OBVIOUS
  <2>4. \A j \in sizes : l >= j
    <3> SUFFICES ASSUME NEW j \in sizes PROVE l >= j
      OBVIOUS
    <3>1. m <= Len(c) - j + 1
      BY <2>2
    <3> QED
      BY <3>1, <2>3, <1>1, <1>5
  <2>5. n \in sizes /\ \A j \in sizes : n >= j
    BY <1>2, <1>8, <2>4
  <2>6. n \in 1..Len(c) /\ IsSuffix(c, e \o Rest(c, n))
    BY <2>5, <1>5, <1>6
  <2>7. ASSUME NEW k \in n + 1..Len(c) PROVE ~IsSuffix(c, e \o Rest(c, k))
    <3>1. k \in 1..Len(c) /\ ~(n >= k)
      BY <2>6, <1>1
    <3> QED
      BY <3>1, <2>5, <1>6
  <2>8. n \in 0..Len(c)
    BY <2>6
  <2> QED
    BY <2>6, <2>7, <2>8 DEF n
<1> QED
  BY <1>7, <1>8

\* What is appended to a text is the reply behind the longest part of it that
\* the text ends with.
LEMMA ContinuationIs ==
    ASSUME NEW P, NEW e \in Seq(P), NEW c \in Seq(P), ContinuationSuffix(e, c) # Rejected
    PROVE  \E k \in 0..Len(c) :
              /\ ContinuationSuffix(e, c) = Rest(c, k)
              /\ IsSuffix(c, e \o Rest(c, k))
              /\ \A l \in k + 1..Len(c) : ~IsSuffix(c, e \o Rest(c, l))
<1>1. Len(e) \in Nat /\ Len(c) \in Nat
  BY LenProperties
<1>2. CASE IsPrefix(e, c)
  <2>1. ContinuationSuffix(e, c) = Rest(c, Len(e))
    BY <1>2 DEF ContinuationSuffix
  <2>2. Len(e) <= Len(c) /\ \A i \in 1..Len(e) : e[i] = c[i]
    BY <1>2, PrefixIs
  <2>3. Len(e) \in 0..Len(c) /\ \A i \in 1..Len(e) : c[i] = e[Len(e) - Len(e) + i]
    BY <1>1, <2>2
  <2>4. IsSuffix(c, e \o Rest(c, Len(e)))
    BY <1>1, <2>3, GoesOn
  <2>5. ASSUME NEW l \in Len(e) + 1..Len(c) PROVE ~IsSuffix(c, e \o Rest(c, l))
    <3>1. l \in 0..Len(c) /\ ~(l <= Len(e))
      BY <1>1
    <3> QED
      BY <3>1, GoesOn
  <2> QED
    BY <2>1, <2>3, <2>4, <2>5
<1>3. CASE ~IsPrefix(e, c)
  <2>1. ContinuationSuffix(e, c) = Rest(c, Overlap(e, c))
    BY <1>3 DEF ContinuationSuffix
  <2> QED
    BY <2>1, OverlapIs
<1> QED
  BY <1>2, <1>3

LEMMA TrimmedIs ==
    ASSUME NEW P, NEW s \in Seq(P), NEW a \in 1..Len(s), NEW b \in 1..Len(s),
           s[a] # "blank", s[b] # "blank", \A i \in 1..Len(s) : s[i] # "blank" => a <= i /\ i <= b
    PROVE  Trimmed(s) = SubSeq(s, a, b)
<1> DEFINE solid == {i \in 1..Len(s) : s[i] # "blank"}
           first == CHOOSE i \in solid : \A j \in solid : i <= j
           last == CHOOSE i \in solid : \A j \in solid : i >= j
<1>1. Len(s) \in Nat
  BY LenProperties
<1>2. a \in solid /\ b \in solid /\ \A i \in solid : a <= i /\ b >= i /\ i \in Int
  BY <1>1
<1>3. Trimmed(s) = IF solid = {} THEN <<>> ELSE SubSeq(s, first, last)
  BY DEF Trimmed
<1> HIDE DEF solid
<1>4. first \in solid /\ \A j \in solid : first <= j
  BY <1>2
<1>5. last \in solid /\ \A j \in solid : last >= j
  BY <1>2
<1> HIDE DEF first, last
<1>6. first = a /\ last = b
  BY <1>1, <1>2, <1>4, <1>5
<1> QED
  BY <1>2, <1>3, <1>6

\* The first candidate that completes the object.
LEMMA AcceptedIs ==
    ASSUME NEW p, NEW c, Accepted(p, c) # Rejected
    PROVE  p \o Accepted(p, c) \in WholeObject
<1> DEFINE cs == RepairSuffixCandidates(p, c)
           fits == {i \in DOMAIN cs : p \o cs[i] \in WholeObject}
<1>1. DOMAIN cs \subseteq {1, 2}
  BY DEF RepairSuffixCandidates
<1>2. Accepted(p, c) = IF fits = {} THEN Rejected ELSE cs[CHOOSE i \in fits : \A j \in fits : i <= j]
  BY DEF Accepted
<1> HIDE DEF cs
<1>3. fits # {} /\ fits \subseteq {1, 2} /\ \A i \in fits : p \o cs[i] \in WholeObject
  BY <1>1, <1>2
<1> HIDE DEF fits
<1>4. \E i \in fits : \A j \in fits : i <= j
  <2>1. CASE 1 \in fits
    BY <2>1, <1>3
  <2>2. CASE 1 \notin fits
    <3>1. fits = {2}
      BY <2>2, <1>3
    <3> QED
      BY <3>1
  <2> QED
    BY <2>1, <2>2
<1> QED
  BY <1>2, <1>3, <1>4

\* Whatever completes the object is accepted when it is a candidate.
LEMMA Accepts ==
    ASSUME RecoveryAssumption, NEW p, NEW c, p \in Seq(Piece),
           RepairSuffixCandidates(p, c) \in Seq(Seq(Piece)),
           \E i \in DOMAIN RepairSuffixCandidates(p, c) :
              p \o RepairSuffixCandidates(p, c)[i] \in WholeObject
    PROVE  Accepted(p, c) # Rejected
<1> DEFINE cs == RepairSuffixCandidates(p, c)
           fits == {i \in DOMAIN cs : p \o cs[i] \in WholeObject}
<1>1. DOMAIN cs \subseteq {1, 2}
  BY DEF RepairSuffixCandidates
<1>2. Accepted(p, c) = IF fits = {} THEN Rejected ELSE cs[CHOOSE i \in fits : \A j \in fits : i <= j]
  BY DEF Accepted
<1> HIDE DEF cs
<1>3. fits # {} /\ fits \subseteq {1, 2} /\ fits \subseteq DOMAIN cs
  BY <1>1 DEF cs
<1> HIDE DEF fits
<1>4. \E i \in fits : \A j \in fits : i <= j
  <2>1. CASE 1 \in fits
    BY <2>1, <1>3
  <2>2. CASE 1 \notin fits
    <3>1. fits = {2}
      BY <2>2, <1>3
    <3> QED
      BY <3>1
  <2> QED
    BY <2>1, <2>2
<1>5. PICK i \in DOMAIN cs : Accepted(p, c) = cs[i]
  BY <1>2, <1>3, <1>4
<1>6. Accepted(p, c) \in Seq(Piece)
  <2> DEFINE T == Seq(Piece)
  <2>1. cs \in Seq(T)
    BY DEF cs
  <2> HIDE DEF T
  <2>2. cs[i] \in T
    BY <2>1, <1>5, LenProperties, ElementOfSeq
  <2> QED
    BY <2>2, <1>5 DEF T
<1>7. Rejected \notin Seq(Piece)
  <2>1. SUFFICES ASSUME Rejected \in Seq(Piece) PROVE FALSE
    OBVIOUS
  <2>2. Len(Rejected) = 1 /\ Rejected[1] = "rejected"
    BY DEF Rejected
  <2>3. Rejected[1] \in Piece
    <3>1. \A l \in 1..Len(Rejected) : Rejected[l] \in Piece
      BY <2>1, ElementOfSeq
    <3> QED
      BY <2>2, <3>1
  <2> QED
    BY <2>2, <2>3 DEF RecoveryAssumption
<1> QED
  BY <1>6, <1>7

\* strip() and the fences give back what a helpful reply wraps.
LEMMA Unwrapped ==
    ASSUME NEW P, {"blank", "fence"} \subseteq P, NEW s \in Seq(P), s # <<>>,
           Head(s) \notin {"blank", "fence"}, Last(s) # "blank",
           NEW c \in {s, Fence(s), <<"blank">> \o s}
    PROVE  Trimmed(c) # <<>> /\ Unfenced(Trimmed(c)) = s
<1>1. Len(s) \in Nat /\ Len(s) >= 1
  BY LenProperties, EmptySeq
<1>2. s[1] = Head(s) /\ s[Len(s)] = Last(s)
  BY <1>1 DEF Last
<1>3. Trimmed(s) = s
  <2>1. 1 \in 1..Len(s) /\ Len(s) \in 1..Len(s)
        /\ \A i \in 1..Len(s) : 1 <= i /\ i <= Len(s)
    BY <1>1
  <2>2. Trimmed(s) = SubSeq(s, 1, Len(s))
    BY <1>2, <2>1, TrimmedIs
  <2> QED
    BY <2>2, SubSeqFull
<1>4. Unfenced(s) = s
  BY DEF Unfenced
<1>5. CASE c = s
  BY <1>3, <1>4, <1>5
<1>6. CASE c = <<"blank">> \o s
  <2> DEFINE blank == <<"blank">>
             n == Len(s) + 1
  <2>1. blank \in Seq(P) /\ Len(blank) = 1 /\ blank[1] = "blank"
    OBVIOUS
  <2>2. c = blank \o s
    BY <1>6
  <2> HIDE DEF blank
  <2>3. /\ c \in Seq(P) /\ Len(c) = 1 + Len(s)
        /\ \A i \in 1..1 + Len(s) : c[i] = IF i <= 1 THEN blank[i] ELSE s[i - 1]
    <3> DEFINE h == blank \o s
    <3>1. /\ h \in Seq(P) /\ Len(h) = Len(blank) + Len(s)
          /\ \A i \in 1..Len(blank) + Len(s) :
                h[i] = IF i <= Len(blank) THEN blank[i] ELSE s[i - Len(blank)]
      BY <2>1, ConcatProperties
    <3>2. c = h
      BY <2>2
    <3> HIDE DEF h
    <3> QED
      BY <2>1, <3>1, <3>2
  <2>4. c[1] = "blank" /\ \A i \in 2..n : c[i] = s[i - 1]
    <3>1. c[1] = blank[1]
      BY <1>1, <2>3
    <3>2. ASSUME NEW i \in 2..n PROVE c[i] = s[i - 1]
      <4>1. i \in 1..1 + Len(s) /\ ~(i <= 1)
        BY <1>1
      <4> QED
        BY <4>1, <2>3
    <3> QED
      BY <3>1, <3>2, <2>1
  <2>5. c[2] = s[1] /\ c[n] = s[Len(s)]
    <3>1. 2 \in 2..n /\ n \in 2..n /\ 2 - 1 = 1 /\ n - 1 = Len(s)
      BY <1>1
    <3> QED
      BY <3>1, <2>4
  <2>6. Trimmed(c) = SubSeq(c, 2, n)
    <3>1. 2 \in 1..Len(c) /\ n \in 1..Len(c)
      BY <1>1, <2>3
    <3>2. \A i \in 1..Len(c) : c[i] # "blank" => 2 <= i /\ i <= n
      BY <1>1, <2>3, <2>4
    <3> QED
      BY <1>2, <2>3, <2>5, <3>1, <3>2, TrimmedIs
  <2>7. SubSeq(c, 2, n) = s
    <3> DEFINE u == SubSeq(c, 2, n)
    <3>1. \A i \in 2..n : c[i] \in P
      BY <1>1, <2>3, ElementOfSeq
    <3>2. n \in Int
      BY <1>1
    <3> HIDE DEF n
    <3>3. /\ u \in Seq(P) /\ Len(u) = IF 2 <= n THEN n - 2 + 1 ELSE 0
          /\ \A i \in 1..n - 2 + 1 : u[i] = c[2 + i - 1]
      BY <3>1, <3>2, SubSeqProperties
    <3> HIDE DEF u
    <3>4. Len(u) = Len(s) /\ \A i \in 1..Len(s) : u[i] = c[i + 1]
      BY <1>1, <3>3 DEF n
    <3>5. \A i \in 1..Len(u) : u[i] = s[i]
      <4> SUFFICES ASSUME NEW i \in 1..Len(s) PROVE u[i] = s[i]
        BY <3>4
      <4>1. i + 1 \in 2..n /\ (i + 1) - 1 = i
        BY <1>1 DEF n
      <4> QED
        BY <4>1, <3>4, <2>4
    <3> QED
      BY <3>3, <3>4, <3>5, SeqEqual DEF u
  <2> QED
    BY <2>6, <2>7, <1>4
<1>7. CASE c = Fence(s)
  <2> DEFINE fence == <<"fence">>
             h == fence \o s
             n == Len(s) + 2
  <2>1. fence \in Seq(P) /\ Len(fence) = 1 /\ fence[1] = "fence"
    OBVIOUS
  <2>2. c = h \o fence
    BY <1>7 DEF Fence
  <2> HIDE DEF fence
  <2>3. /\ h \in Seq(P) /\ Len(h) = 1 + Len(s)
        /\ \A i \in 1..1 + Len(s) : h[i] = IF i <= 1 THEN fence[i] ELSE s[i - 1]
    <3>1. /\ h \in Seq(P) /\ Len(h) = Len(fence) + Len(s)
          /\ \A i \in 1..Len(fence) + Len(s) :
                h[i] = IF i <= Len(fence) THEN fence[i] ELSE s[i - Len(fence)]
      BY <2>1, ConcatProperties
    <3> HIDE DEF h
    <3> QED
      BY <2>1, <3>1
  <2> HIDE DEF h
  <2>4. /\ c \in Seq(P) /\ Len(c) = Len(h) + 1
        /\ \A i \in 1..Len(h) + 1 : c[i] = IF i <= Len(h) THEN h[i] ELSE fence[i - Len(h)]
    <3> DEFINE g == h \o fence
    <3>1. /\ g \in Seq(P) /\ Len(g) = Len(h) + Len(fence)
          /\ \A i \in 1..Len(h) + Len(fence) :
                g[i] = IF i <= Len(h) THEN h[i] ELSE fence[i - Len(h)]
      BY <2>1, <2>3, ConcatProperties
    <3>2. c = g
      BY <2>2
    <3> HIDE DEF g
    <3> QED
      BY <2>1, <3>1, <3>2
  <2>5. Len(c) = n /\ c[1] = "fence" /\ c[n] = "fence"
    <3>1. 1 \in 1..Len(h) + 1 /\ 1 <= Len(h) /\ 1 \in 1..1 + Len(s)
      BY <1>1, <2>3
    <3>2. c[1] = h[1] /\ h[1] = fence[1]
      BY <3>1, <2>3, <2>4
    <3>3. n \in 1..Len(h) + 1 /\ ~(n <= Len(h)) /\ n - Len(h) = 1 /\ Len(c) = n
      BY <1>1, <2>3, <2>4
    <3> HIDE DEF n
    <3>4. c[n] = fence[1]
      BY <3>3, <2>4
    <3> QED
      BY <3>2, <3>3, <3>4, <2>1
  <2>6. \A i \in 2..n - 1 : c[i] = s[i - 1]
    <3> SUFFICES ASSUME NEW i \in 2..n - 1 PROVE c[i] = s[i - 1]
      OBVIOUS
    <3>1. i \in 1..Len(h) + 1 /\ i <= Len(h) /\ i \in 1..1 + Len(s) /\ ~(i <= 1)
      BY <1>1, <2>3
    <3>2. c[i] = h[i]
      BY <3>1, <2>4
    <3> QED
      BY <3>1, <3>2, <2>3
  <2>7. Trimmed(c) = c
    <3>1. 1 \in 1..Len(c) /\ n \in 1..Len(c) /\ \A i \in 1..Len(c) : 1 <= i /\ i <= n
      BY <1>1, <2>5
    <3>2. Trimmed(c) = SubSeq(c, 1, n)
      BY <2>4, <2>5, <3>1, TrimmedIs
    <3> QED
      BY <2>4, <2>5, <3>2, SubSeqFull
  <2>8. c # <<>> /\ Head(c) = "fence" /\ Last(c) = "fence"
    <3>1. c # <<>>
      <4>1. Len(c) # 0
        BY <1>1, <2>5
      <4> QED
        BY <4>1, EmptySeq
    <3>2. Head(c) = c[1] /\ Last(c) = c[Len(c)]
      BY <2>4, <3>1 DEF Last
    <3> QED
      BY <3>1, <3>2, <2>5
  <2>9. Unfenced(c) = Trimmed(SubSeq(c, 2, Len(c) - 1))
    BY <2>8 DEF Unfenced
  <2>10. SubSeq(c, 2, Len(c) - 1) = s
    <3> DEFINE m == n - 1
               u == SubSeq(c, 2, m)
    <3>1. \A i \in 2..m : c[i] \in P
      BY <1>1, <2>4, <2>5, ElementOfSeq
    <3>2. m \in Int
      BY <1>1
    <3>6. m = Len(c) - 1 /\ m = Len(s) + 1
      BY <1>1, <2>5
    <3>7. \A i \in 2..m : c[i] = s[i - 1]
      BY <2>6
    <3> HIDE DEF m
    <3>3. /\ u \in Seq(P) /\ Len(u) = IF 2 <= m THEN m - 2 + 1 ELSE 0
          /\ \A i \in 1..m - 2 + 1 : u[i] = c[2 + i - 1]
      BY <3>1, <3>2, SubSeqProperties
    <3> HIDE DEF u
    <3>4. Len(u) = Len(s) /\ \A i \in 1..Len(s) : u[i] = c[i + 1]
      BY <1>1, <3>3, <3>6
    <3>5. \A i \in 1..Len(u) : u[i] = s[i]
      <4> SUFFICES ASSUME NEW i \in 1..Len(s) PROVE u[i] = s[i]
        BY <3>4
      <4>1. i + 1 \in 2..m /\ (i + 1) - 1 = i
        BY <1>1, <3>6
      <4> QED
        BY <4>1, <3>4, <3>7
    <3> QED
      BY <3>3, <3>4, <3>5, <3>6, SeqEqual DEF u
  <2> QED
    BY <2>7, <2>8, <2>9, <2>10, <1>3
<1> QED
  BY <1>5, <1>6, <1>7

LEMMA PrefixGoesOn ==
    ASSUME NEW P, NEW e \in Seq(P), NEW o \in Seq(P), IsPrefix(e, o)
    PROVE  Len(e) \in 0..Len(o) /\ e \o Rest(o, Len(e)) = o
<1>1. Len(e) \in Nat /\ Len(o) \in Nat
  BY LenProperties
<1>2. Len(e) <= Len(o) /\ \A i \in 1..Len(e) : e[i] = o[i]
  BY PrefixIs
<1>3. Len(e) \in 0..Len(o)
  BY <1>1, <1>2
<1> DEFINE r == Rest(o, Len(e))
           M == e \o r
<1>4. r \in Seq(P) /\ Len(r) = Len(o) - Len(e) /\ \A i \in 1..Len(o) - Len(e) : r[i] = o[Len(e) + i]
  BY <1>3, RestIs
<1> HIDE DEF r
<1>5. /\ M \in Seq(P) /\ Len(M) = Len(e) + Len(r)
      /\ \A i \in 1..Len(e) + Len(r) : M[i] = IF i <= Len(e) THEN e[i] ELSE r[i - Len(e)]
  BY <1>4, ConcatProperties
<1> HIDE DEF M
<1>6. Len(M) = Len(o)
  BY <1>1, <1>4, <1>5
<1>7. ASSUME NEW i \in 1..Len(M) PROVE M[i] = o[i]
  <2>1. i \in 1..Len(e) + Len(r)
    BY <1>5
  <2>2. CASE i <= Len(e)
    BY <2>1, <2>2, <1>2, <1>5
  <2>3. CASE ~(i <= Len(e))
    <3>1. M[i] = r[i - Len(e)]
      BY <2>1, <2>3, <1>5
    <3>2. i - Len(e) \in 1..Len(o) - Len(e) /\ Len(e) + (i - Len(e)) = i
      BY <2>3, <1>1, <1>6
    <3> QED
      BY <3>1, <3>2, <1>4
  <2> QED
    BY <2>2, <2>3
<1>8. M = o
  BY <1>5, <1>6, <1>7, SeqEqual
<1> QED
  BY <1>3, <1>8 DEF M, r

\* A reply that helps makes a candidate that completes the object.
LEMMA HelpIsAccepted ==
    ASSUME RecoveryAssumption, emitted \in Seq(Piece), Helpful
    PROVE  Accepted(emitted, reply) # Rejected
<1>0. PICK o \in WholeObject : \E s \in {o, Rest(o, Len(emitted))} :
         /\ IsPrefix(emitted, o) /\ s # <<>>
         /\ Head(s) \notin {"blank", "fence"} /\ Last(s) # "blank"
         /\ reply \in {s, Fence(s), <<"blank">> \o s}
  BY DEF Helpful
<1>1. PICK s \in {o, Rest(o, Len(emitted))} :
         /\ IsPrefix(emitted, o) /\ s # <<>>
         /\ Head(s) \notin {"blank", "fence"} /\ Last(s) # "blank"
         /\ reply \in {s, Fence(s), <<"blank">> \o s}
  BY <1>0
<1>2. o \in Seq(Piece)
  BY DEF RecoveryAssumption
<1>3. Len(emitted) \in 0..Len(o) /\ emitted \o Rest(o, Len(emitted)) = o
  BY <1>1, <1>2, PrefixGoesOn
<1>4. Rest(o, Len(emitted)) \in Seq(Piece)
  BY <1>2, <1>3, RestIs
<1>5. s \in Seq(Piece)
  BY <1>2, <1>4
<1> DEFINE P == Piece \cup {"blank", "fence"}
           cs == RepairSuffixCandidates(emitted, reply)
<1>6. s \in Seq(P) /\ {"blank", "fence"} \subseteq P
  BY <1>5, SeqMonotonic
<1>7. Trimmed(reply) # <<>> /\ Unfenced(Trimmed(reply)) = s
  BY <1>1, <1>6, Unwrapped
<1>8. cs = IF IsPrefix(emitted, s) THEN <<s, Rest(s, Len(emitted))>> ELSE <<s>>
  BY <1>7 DEF RepairSuffixCandidates
<1> DEFINE T == Seq(Piece)
<1>9. cs \in Seq(T)
  <2>1. CASE IsPrefix(emitted, s)
    <3>1. Rest(s, Len(emitted)) \in T
      BY <2>1, <1>5, PrefixGoesOn, RestIs
    <3>2. s \in T /\ cs = <<s, Rest(s, Len(emitted))>>
      BY <1>5, <1>8, <2>1
    <3> HIDE DEF T, cs
    <3> QED
      BY <3>1, <3>2
  <2>2. CASE ~IsPrefix(emitted, s)
    <3>1. s \in T /\ cs = <<s>>
      BY <1>5, <1>8, <2>2
    <3> HIDE DEF T, cs
    <3> QED
      BY <3>1
  <2> QED
    BY <2>1, <2>2
<1>10. \E i \in DOMAIN cs : emitted \o cs[i] \in WholeObject
  <2> HIDE DEF cs
  <2>1. CASE s = o
    <3>1. IsPrefix(emitted, s) /\ cs = <<s, Rest(s, Len(emitted))>>
      BY <1>1, <1>8, <2>1
    <3>2. 2 \in DOMAIN cs /\ cs[2] = Rest(o, Len(emitted))
      BY <2>1, <3>1
    <3> QED
      BY <3>2, <1>3
  <2>2. CASE s = Rest(o, Len(emitted))
    <3>1. 1 \in DOMAIN cs /\ cs[1] = s
      <4>1. CASE IsPrefix(emitted, s)
        BY <4>1, <1>8
      <4>2. CASE ~IsPrefix(emitted, s)
        BY <4>2, <1>8
      <4> QED
        BY <4>1, <4>2
    <3> QED
      BY <2>2, <3>1, <1>3
  <2> QED
    BY <2>1, <2>2
<1> HIDE DEF P
<1> QED
  BY <1>9, <1>10, Accepts

MendInv ==
    /\ broken \in {"text", "tool"}
    /\ broken = "text" => emitted \in Seq(Letter) /\ reply \in Seq(Letter)
    /\ broken = "tool" => emitted \in Seq(Piece)
    /\ reply # <<>> => suffix = IF broken = "text" THEN ContinuationSuffix(emitted, reply)
                                ELSE Accepted(emitted, reply)

LEMMA MendInitially == RecoveryInit => MendInv
<1> SUFFICES ASSUME RecoveryInit PROVE MendInv
  OBVIOUS
<1>1. broken \in {"text", "tool"} /\ reply = <<>>
  BY DEF RecoveryInit
<1>2. CASE broken = "text"
  <2>1. PICK n \in 0..TextMax : emitted \in [1..n -> Letter]
    BY <1>2 DEF RecoveryInit
  <2>2. n \in Nat
    BY <2>1, RecoveryAssumption DEF RecoveryAssumption
  <2>3. emitted \in Seq(Letter)
    BY <2>1, <2>2, SeqDef
  <2> QED
    BY <1>1, <1>2, <2>3, EmptySeq DEF MendInv
<1>3. CASE broken = "tool"
  <2>1. PICK o \in WholeObject : emitted \in Prefixes(o)
    BY <1>3 DEF RecoveryInit
  <2>2. o \in Seq(Piece)
    BY RecoveryAssumption DEF RecoveryAssumption
  <2>3. PICK l \in 0..Len(o) : emitted = SubSeq(o, 1, l)
    BY <2>1 DEF Prefixes
  <2>4. Len(o) \in Nat
    BY <2>2, LenProperties
  <2>5. \A i \in 1..l : o[i] \in Piece
    BY <2>2, <2>4, ElementOfSeq
  <2>6. emitted \in Seq(Piece)
    BY <2>3, <2>4, <2>5, SubSeqProperties
  <2> QED
    BY <1>1, <1>3, <2>6 DEF MendInv
<1> QED
  BY <1>1, <1>2, <1>3

LEMMA MendStep == MendInv /\ [RecoveryNext]_recoveryVars => MendInv'
<1> SUFFICES ASSUME MendInv, [RecoveryNext]_recoveryVars PROVE MendInv'
  OBVIOUS
<1>1. CASE AskForRest
  BY <1>1 DEF AskForRest, MendInv
<1>2. CASE MendText
  <2>1. PICK n \in 0..TextMax : reply' \in [1..n -> Letter]
    BY <1>2 DEF MendText
  <2>2. n \in Nat
    BY <2>1, RecoveryAssumption DEF RecoveryAssumption
  <2>3. reply' \in Seq(Letter)
    BY <2>1, <2>2, SeqDef
  <2> QED
    BY <1>2, <2>3 DEF MendText, MendInv
<1>3. CASE MendTool
  BY <1>3 DEF MendTool, MendInv
<1>4. CASE UNCHANGED recoveryVars
  BY <1>4 DEF recoveryVars, MendInv
<1> QED
  BY <1>1, <1>2, <1>3, <1>4 DEF RecoveryNext

LEMMA MendedImplied == MendInv => MendedOnce
<1> SUFFICES ASSUME MendInv PROVE MendedOnce
  OBVIOUS
<1>1. ASSUME broken = "text", suffix # Rejected, reply # <<>>
      PROVE  /\ IsSuffix(reply, emitted \o suffix)
             /\ \A n \in 0..(Len(suffix) - 1) :
                   ~IsSuffix(reply, emitted \o Rest(reply, Len(reply) - n))
  <2>1. emitted \in Seq(Letter) /\ reply \in Seq(Letter) /\ suffix = ContinuationSuffix(emitted, reply)
    BY <1>1 DEF MendInv
  <2>2. PICK k \in 0..Len(reply) :
          /\ suffix = Rest(reply, k)
          /\ IsSuffix(reply, emitted \o Rest(reply, k))
          /\ \A l \in k + 1..Len(reply) : ~IsSuffix(reply, emitted \o Rest(reply, l))
    BY <1>1, <2>1, ContinuationIs
  <2>3. Len(suffix) = Len(reply) - k /\ Len(reply) \in Nat
    BY <2>1, <2>2, RestIs, LenProperties
  <2>4. ASSUME NEW n \in 0..(Len(suffix) - 1)
        PROVE  ~IsSuffix(reply, emitted \o Rest(reply, Len(reply) - n))
    <3>1. Len(reply) - n \in k + 1..Len(reply)
      BY <2>3
    <3> QED
      BY <2>2, <3>1
  <2> QED
    BY <2>2, <2>4
<1>2. ASSUME broken = "tool", reply # <<>>, suffix # Rejected PROVE emitted \o suffix \in WholeObject
  <2>1. suffix = Accepted(emitted, reply)
    BY <1>2 DEF MendInv
  <2> QED
    BY <1>2, <2>1, AcceptedIs
<1>3. ASSUME broken = "tool", Helpful PROVE suffix # Rejected
  <2>1. emitted \in Seq(Piece)
    BY <1>3 DEF MendInv
  <2>2. Accepted(emitted, reply) # Rejected
    BY <1>3, <2>1, RecoveryAssumption, HelpIsAccepted
  <2>3. reply # <<>>
    <3>0. PICK o \in WholeObject : \E s \in {o, Rest(o, Len(emitted))} :
             /\ IsPrefix(emitted, o) /\ s # <<>>
             /\ reply \in {s, Fence(s), <<"blank">> \o s}
      BY <1>3 DEF Helpful
    <3>1. PICK s \in {o, Rest(o, Len(emitted))} :
             /\ IsPrefix(emitted, o) /\ s # <<>>
             /\ reply \in {s, Fence(s), <<"blank">> \o s}
      BY <3>0
    <3>2. o \in Seq(Piece)
      BY RecoveryAssumption DEF RecoveryAssumption
    <3>3. s \in Seq(Piece)
      BY <2>1, <3>1, <3>2, PrefixGoesOn, RestIs
    <3> DEFINE P == Piece \cup {"blank", "fence"}
    <3>4. s \in Seq(P) /\ <<"blank">> \in Seq(P) /\ <<"fence">> \in Seq(P)
      BY <3>3, SeqMonotonic
    <3> HIDE DEF P
    <3>5. Fence(s) # <<>> /\ <<"blank">> \o s # <<>>
      BY <3>1, <3>4, ConcatProperties, ConcatEqualIffEmpty DEF Fence
    <3> QED
      BY <3>1, <3>5
  <2> QED
    BY <1>3, <2>2, <2>3 DEF MendInv
<1> QED
  BY <1>1, <1>2, <1>3 DEF MendedOnce

\* A broken answer is mended once: for every text and every reply the client
\* reads the whole reply behind what it has and not a letter of it twice, and
\* for every tool its arguments become an object the schema accepts, whenever
\* the reply helps (stream_recovery.py: continuation_suffix,
\* accept_tool_json_repair).
THEOREM Mends == RecoveryInit /\ [][RecoveryNext]_recoveryVars => []MendedOnce
<1>1. RecoveryInit => MendInv
  BY MendInitially
<1>2. MendInv /\ [RecoveryNext]_recoveryVars => MendInv'
  BY MendStep
<1>3. MendInv => MendedOnce
  BY MendedImplied
<1> QED
  BY <1>1, <1>2, <1>3, PTL
=============================================================================

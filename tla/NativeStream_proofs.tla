-------------------------- MODULE NativeStream_proofs --------------------------
(***************************************************************************)
(* What the client gets of a native answer is whole, for any number of     *)
(* upstream blocks, events and attempts.                                   *)
(*                                                                         *)
(* The argument is about one sequence, Emitted: what the client has and    *)
(* what is held back for it.  It is Carried: each event stands where the   *)
(* contract allows it, given the events before it.  The policy's state     *)
(* Holds it: the indexes given out are those that were started, and the    *)
(* blocks the state calls open are those that were started and not         *)
(* stopped.  So what the policy, the repairs and the tails append always   *)
(* Follows, and Joined says that a carried sequence stays carried.         *)
(***************************************************************************)
EXTENDS NativeStream, Queues_proofs

EventType == {"start", "delta", "stop", "message_delta", "message_stop"}

\* The kind of a block or, at the end of a message, why it ends.
BlockOrReason == Kind \cup {"finished", "end_turn", "none"}

AnEvent ==
    [event : EventType, index : Int, block : BlockOrReason, json : Json,
     named : BOOLEAN, repair : BOOLEAN, attempt : Nat]

PolicyState ==
    [next : Nat, down : [Index -> Int], open : SUBSET Index,
     dropped : SUBSET Index, suppressed : SUBSET Index, named : SUBSET Index]

\* The indexes and the kinds of the blocks a sequence of events starts.
Begun(L) == {L[k].index : k \in {j \in DOMAIN L : L[j].event = "start"}}
BegunAs(L, i, b) == \E k \in DOMAIN L : L[k].event = "start" /\ L[k].index = i /\ L[k].block = b

HasEnd(L) == \E k \in DOMAIN L : L[k].event = "message_stop"

DeltaAt(L) == {k \in DOMAIN L : L[k].event = "delta"}
DeltaCount(L) == Cardinality(DeltaAt(L))

\* An event that needs its block to be open.
NeedsOpen(e) == e.event = "stop" \/ (e.event = "delta" /\ ~e.repair)

\* The k-th event stands where it may.
Placed(L, k) ==
    /\ L[k].event = "start" =>
          \A j \in 1..k - 1 : ~(L[j].event = "start" /\ L[j].index = L[k].index)
    /\ L[k].event \in {"delta", "stop"} =>
          \E j \in 1..k - 1 : L[j].event = "start" /\ L[j].index = L[k].index
                              /\ L[j].block = L[k].block
    /\ NeedsOpen(L[k]) =>
          \A j \in 1..k - 1 : ~(L[j].event = "stop" /\ L[j].index = L[k].index)

OfAttempt(e, a, th) == e.attempt = a /\ (e.block = "thinking" => th)

Carried(L, a, th) ==
    /\ L \in Seq(AnEvent)
    /\ \A k \in DOMAIN L : OfAttempt(L[k], a, th)
    /\ \A k \in DOMAIN L : Placed(L, k)

\* The events of C may follow those of L.
Follows(L, C, a, th) ==
    \A m \in DOMAIN C :
        /\ OfAttempt(C[m], a, th)
        /\ C[m].event = "start" =>
              /\ C[m].index \notin Begun(L)
              /\ \A j \in 1..m - 1 : ~(C[j].event = "start" /\ C[j].index = C[m].index)
        /\ C[m].event \in {"delta", "stop"} =>
              \/ BegunAs(L, C[m].index, C[m].block)
              \/ \E j \in 1..m - 1 : C[j].event = "start" /\ C[j].index = C[m].index
                                     /\ C[j].block = C[m].block
        /\ NeedsOpen(C[m]) =>
              /\ C[m].index \notin Stopped(L)
              /\ \A j \in 1..m - 1 : ~(C[j].event = "stop" /\ C[j].index = C[m].index)

-----------------------------------------------------------------------------
(* Sequences of events. *)

LEMMA Regrouped ==
    \A a, b, c \in Seq(AnEvent) : (a \o b) \o c = a \o (b \o c)
  BY ConcatAssociative

\* Where an event of two sequences behind each other comes from.
LEMMA JoinedAt ==
    ASSUME NEW L \in Seq(AnEvent), NEW C \in Seq(AnEvent)
    PROVE  /\ L \o C \in Seq(AnEvent)
           /\ Len(L) \in Nat /\ Len(C) \in Nat
           /\ DOMAIN L = 1..Len(L) /\ DOMAIN C = 1..Len(C)
           /\ DOMAIN (L \o C) = 1..Len(L) + Len(C)
           /\ \A k \in 1..Len(L) : k \in DOMAIN (L \o C) /\ (L \o C)[k] = L[k]
           /\ \A m \in 1..Len(C) : Len(L) + m \in DOMAIN (L \o C) /\ (L \o C)[Len(L) + m] = C[m]
           /\ \A k \in DOMAIN (L \o C) :
                 \/ k \in 1..Len(L)
                 \/ k - Len(L) \in 1..Len(C) /\ (L \o C)[k] = C[k - Len(L)]
<1>1. Len(L) \in Nat /\ Len(C) \in Nat /\ DOMAIN L = 1..Len(L) /\ DOMAIN C = 1..Len(C)
  BY LenProperties
<1>2. /\ L \o C \in Seq(AnEvent) /\ Len(L \o C) = Len(L) + Len(C)
      /\ \A i \in 1..Len(L) + Len(C) :
            (L \o C)[i] = IF i <= Len(L) THEN L[i] ELSE C[i - Len(L)]
  BY ConcatProperties
<1>3. DOMAIN (L \o C) = 1..Len(L) + Len(C)
  BY <1>2, LenProperties
<1> DEFINE M == L \o C
<1> HIDE DEF M
<1>4. \A k \in 1..Len(L) : k \in DOMAIN M /\ M[k] = L[k]
  BY <1>1, <1>2, <1>3 DEF M
<1>5. ASSUME NEW m \in 1..Len(C) PROVE Len(L) + m \in DOMAIN M /\ M[Len(L) + m] = C[m]
  <2>1. Len(L) + m \in 1..Len(L) + Len(C) /\ ~(Len(L) + m <= Len(L)) /\ (Len(L) + m) - Len(L) = m
    BY <1>1
  <2> QED
    BY <2>1, <1>2, <1>3 DEF M
<1>6. ASSUME NEW k \in DOMAIN M
      PROVE  k \in 1..Len(L) \/ (k - Len(L) \in 1..Len(C) /\ M[k] = C[k - Len(L)])
  BY <1>1, <1>2, <1>3 DEF M
<1> QED
  BY <1>1, <1>2, <1>3, <1>4, <1>5, <1>6 DEF M

\* What the two start, stop and hold.
LEMMA JoinedSets ==
    ASSUME NEW L \in Seq(AnEvent), NEW C \in Seq(AnEvent)
    PROVE  /\ Begun(L \o C) = Begun(L) \cup Begun(C)
           /\ Stopped(L \o C) = Stopped(L) \cup Stopped(C)
           /\ \A i, b : BegunAs(L \o C, i, b) <=> BegunAs(L, i, b) \/ BegunAs(C, i, b)
           /\ HasEnd(L \o C) <=> HasEnd(L) \/ HasEnd(C)
<1> DEFINE M == L \o C
<1>1. /\ DOMAIN L = 1..Len(L) /\ DOMAIN C = 1..Len(C)
      /\ \A k \in 1..Len(L) : k \in DOMAIN M /\ M[k] = L[k]
      /\ \A m \in 1..Len(C) : Len(L) + m \in DOMAIN M /\ M[Len(L) + m] = C[m]
      /\ \A k \in DOMAIN M :
                 \/ k \in 1..Len(L)
                 \/ k - Len(L) \in 1..Len(C) /\ M[k] = C[k - Len(L)]
  BY JoinedAt
<1> HIDE DEF M
<1>2. ASSUME NEW k \in DOMAIN M
      PROVE  (\E j \in DOMAIN L : M[k] = L[j]) \/ (\E j \in DOMAIN C : M[k] = C[j])
  BY <1>1
<1>3. \A k \in DOMAIN L : \E j \in DOMAIN M : M[j] = L[k]
  BY <1>1
<1>4. \A k \in DOMAIN C : \E j \in DOMAIN M : M[j] = C[k]
  BY <1>1
<1>5. Begun(M) = Begun(L) \cup Begun(C)
  BY <1>2, <1>3, <1>4 DEF Begun
<1>6. Stopped(M) = Stopped(L) \cup Stopped(C)
  BY <1>2, <1>3, <1>4 DEF Stopped
<1>7. \A i, b : BegunAs(M, i, b) <=> BegunAs(L, i, b) \/ BegunAs(C, i, b)
  BY <1>2, <1>3, <1>4 DEF BegunAs
<1>8. HasEnd(M) <=> HasEnd(L) \/ HasEnd(C)
  BY <1>2, <1>3, <1>4 DEF HasEnd
<1> QED
  BY <1>5, <1>6, <1>7, <1>8 DEF M

\* The deltas are as many as before and more if there is one among the new.
LEMMA JoinedDeltas ==
    ASSUME NEW L \in Seq(AnEvent), NEW C \in Seq(AnEvent)
    PROVE  /\ DeltaCount(L) \in Nat /\ DeltaCount(L \o C) \in Nat
           /\ DeltaCount(L \o C) >= DeltaCount(L)
           /\ (\E m \in DOMAIN C : C[m].event = "delta") => DeltaCount(L \o C) >= DeltaCount(L) + 1
<1> DEFINE M == L \o C
<1>1. /\ Len(L) \in Nat /\ Len(C) \in Nat
      /\ DOMAIN L = 1..Len(L) /\ DOMAIN C = 1..Len(C) /\ DOMAIN M = 1..Len(L) + Len(C)
      /\ \A k \in 1..Len(L) : k \in DOMAIN M /\ M[k] = L[k]
      /\ \A m \in 1..Len(C) : Len(L) + m \in DOMAIN M /\ M[Len(L) + m] = C[m]
  BY JoinedAt
<1> HIDE DEF M
<1>2. DeltaAt(L) \subseteq DeltaAt(M) /\ DeltaAt(M) \subseteq 1..Len(L) + Len(C)
  BY <1>1 DEF DeltaAt
<1>3. IsFiniteSet(DeltaAt(M))
  <2>1. IsFiniteSet(1..Len(L) + Len(C))
    BY <1>1, FS_Interval
  <2> QED
    BY <2>1, <1>2, FS_Subset
<1>4. /\ Cardinality(DeltaAt(L)) \in Nat /\ Cardinality(DeltaAt(M)) \in Nat
      /\ Cardinality(DeltaAt(L)) <= Cardinality(DeltaAt(M)) /\ IsFiniteSet(DeltaAt(L))
  BY <1>2, <1>3, FS_Subset, FS_CardinalityType
<1>5. ASSUME NEW m \in DOMAIN C, C[m].event = "delta"
      PROVE  Cardinality(DeltaAt(M)) >= Cardinality(DeltaAt(L)) + 1
  <2> DEFINE n == Len(L) + m
             Some == DeltaAt(L) \cup {n}
  <2>1. n \in DeltaAt(M) /\ n \notin DeltaAt(L)
    BY <1>1, <1>5 DEF DeltaAt
  <2> HIDE DEF n
  <2>2. Cardinality(Some) = Cardinality(DeltaAt(L)) + 1
    BY <2>1, <1>4, FS_AddElement
  <2>3. Some \subseteq DeltaAt(M)
    BY <2>1, <1>2
  <2>4. Cardinality(Some) <= Cardinality(DeltaAt(M))
    BY <2>3, <1>3, FS_Subset
  <2> QED
    BY <2>2, <2>4, <1>4
<1> QED
  BY <1>4, <1>5 DEF M, DeltaCount

\* What follows a carried sequence is carried on.
LEMMA Joined ==
    ASSUME NEW a, NEW th, NEW L, Carried(L, a, th), NEW C \in Seq(AnEvent), Follows(L, C, a, th)
    PROVE  Carried(L \o C, a, th)
<1> DEFINE M == L \o C
<1>1. L \in Seq(AnEvent)
  BY DEF Carried
<1>2. /\ M \in Seq(AnEvent)
      /\ Len(L) \in Nat /\ Len(C) \in Nat
      /\ DOMAIN L = 1..Len(L) /\ DOMAIN C = 1..Len(C)
      /\ \A k \in 1..Len(L) : k \in DOMAIN M /\ M[k] = L[k]
      /\ \A m \in 1..Len(C) : Len(L) + m \in DOMAIN M /\ M[Len(L) + m] = C[m]
      /\ \A k \in DOMAIN M :
                 \/ k \in 1..Len(L)
                 \/ k - Len(L) \in 1..Len(C) /\ M[k] = C[k - Len(L)]
      /\ DOMAIN M = 1..Len(L) + Len(C)
  BY <1>1, JoinedAt
<1> HIDE DEF M
<1>3. ASSUME NEW k \in DOMAIN M PROVE OfAttempt(M[k], a, th) /\ Placed(M, k)
  <2>1. CASE k \in 1..Len(L)
    <3>1. M[k] = L[k] /\ \A j \in 1..k - 1 : M[j] = L[j]
      BY <2>1, <1>2
    <3>2. Placed(L, k) /\ OfAttempt(L[k], a, th)
      BY <2>1, <1>2 DEF Carried
    <3> QED
      BY <3>1, <3>2 DEF Placed
  <2>2. CASE k - Len(L) \in 1..Len(C) /\ M[k] = C[k - Len(L)]
    <3> DEFINE m == k - Len(L)
    <3>1. m \in DOMAIN C /\ M[k] = C[m] /\ k = Len(L) + m
      BY <2>2, <1>2
    <3>2. ASSUME NEW j \in 1..k - 1
          PROVE  \/ j \in DOMAIN L /\ M[j] = L[j]
                 \/ j - Len(L) \in 1..m - 1 /\ M[j] = C[j - Len(L)]
      <4>1. j \in DOMAIN M
        BY <1>2
      <4>2. CASE j \in 1..Len(L)
        BY <4>2, <1>2
      <4>3. CASE j - Len(L) \in 1..Len(C) /\ M[j] = C[j - Len(L)]
        BY <4>3, <1>2
      <4> QED
        BY <4>1, <4>2, <4>3, <1>2
    <3>3. \A j \in DOMAIN L : j \in 1..k - 1 /\ M[j] = L[j]
      BY <3>1, <1>2
    <3>4. \A j \in 1..m - 1 : Len(L) + j \in 1..k - 1 /\ M[Len(L) + j] = C[j]
      BY <3>1, <1>2
    <3> HIDE DEF m
    <3>5. M[k].event = "start" =>
             \A j \in 1..k - 1 : ~(M[j].event = "start" /\ M[j].index = M[k].index)
      <4> SUFFICES ASSUME M[k].event = "start", NEW j \in 1..k - 1,
                          M[j].event = "start", M[j].index = M[k].index
                   PROVE  FALSE
        OBVIOUS
      <4>1. C[m].index \notin Begun(L)
            /\ \A i \in 1..m - 1 : ~(C[i].event = "start" /\ C[i].index = C[m].index)
        BY <3>1 DEF Follows
      <4> QED
        BY <4>1, <3>1, <3>2 DEF Begun
    <3>6. M[k].event \in {"delta", "stop"} =>
             \E j \in 1..k - 1 : M[j].event = "start" /\ M[j].index = M[k].index
                                 /\ M[j].block = M[k].block
      <4> SUFFICES ASSUME M[k].event \in {"delta", "stop"}
                   PROVE  \E j \in 1..k - 1 : M[j].event = "start" /\ M[j].index = M[k].index
                                 /\ M[j].block = M[k].block
        OBVIOUS
      <4>1. \/ BegunAs(L, C[m].index, C[m].block)
            \/ \E j \in 1..m - 1 : C[j].event = "start" /\ C[j].index = C[m].index
                                     /\ C[j].block = C[m].block
        BY <3>1 DEF Follows
      <4>2. CASE BegunAs(L, C[m].index, C[m].block)
        BY <4>2, <3>1, <3>3 DEF BegunAs
      <4>3. CASE \E j \in 1..m - 1 : C[j].event = "start" /\ C[j].index = C[m].index
                                     /\ C[j].block = C[m].block
        BY <4>3, <3>1, <3>4
      <4> QED
        BY <4>1, <4>2, <4>3
    <3>7. NeedsOpen(M[k]) =>
             \A j \in 1..k - 1 : ~(M[j].event = "stop" /\ M[j].index = M[k].index)
      <4> SUFFICES ASSUME NeedsOpen(M[k]), NEW j \in 1..k - 1,
                          M[j].event = "stop", M[j].index = M[k].index
                   PROVE  FALSE
        OBVIOUS
      <4>1. C[m].index \notin Stopped(L)
            /\ \A i \in 1..m - 1 : ~(C[i].event = "stop" /\ C[i].index = C[m].index)
        BY <3>1 DEF Follows
      <4> QED
        BY <4>1, <3>1, <3>2 DEF Stopped
    <3>8. OfAttempt(M[k], a, th)
      BY <3>1 DEF Follows
    <3> QED
      BY <3>5, <3>6, <3>7, <3>8 DEF Placed
  <2> QED
    BY <2>1, <2>2, <1>2
<1> QED
  BY <1>2, <1>3 DEF M, Carried

-----------------------------------------------------------------------------
(* What the tracker knows of a carried sequence. *)

LEMMA EventIs ==
    ASSUME NEW type \in EventType, NEW i \in Int, NEW b \in BlockOrReason, early_retries \in Nat
    PROVE  /\ Event(type, i, b) \in AnEvent
           /\ Event(type, i, b).event = type /\ Event(type, i, b).index = i
           /\ Event(type, i, b).block = b /\ Event(type, i, b).attempt = early_retries
           /\ ~Event(type, i, b).repair
<1>1. "none" \in Json
  BY DEF Json
<1>2. Event(type, i, b) \in AnEvent
  BY <1>1 DEF Event, AnEvent
<1>3. /\ Event(type, i, b).event = type /\ Event(type, i, b).index = i
      /\ Event(type, i, b).block = b /\ Event(type, i, b).attempt = early_retries
  BY DEF Event
<1>4. ~Event(type, i, b).repair
  BY DEF Event
<1> QED
  BY <1>2, <1>3, <1>4

LEMMA StopOf ==
    ASSUME NEW e \in AnEvent
    PROVE  LET f == [e EXCEPT !.event = "stop"]
           IN  /\ f \in AnEvent /\ f.event = "stop" /\ f.index = e.index
               /\ f.block = e.block /\ f.attempt = e.attempt
<1>1. "stop" \in EventType
  BY DEF EventType
<1> QED
  BY <1>1 DEF AnEvent

\* The start of an index is told once.
LEMMA StartOnce ==
    ASSUME NEW a, NEW th, NEW L, Carried(L, a, th),
           NEW i \in DOMAIN L, NEW j \in DOMAIN L,
           L[i].event = "start", L[j].event = "start", L[i].index = L[j].index
    PROVE  i = j
<1>1. DOMAIN L = 1..Len(L) /\ Len(L) \in Nat
  BY LenProperties DEF Carried
<1>2. Placed(L, i) /\ Placed(L, j)
  BY DEF Carried
<1>3. ~(i < j)
  BY <1>1, <1>2 DEF Placed
<1>4. ~(j < i)
  BY <1>1, <1>2 DEF Placed
<1> QED
  BY <1>1, <1>3, <1>4

LEMMA StartsOf ==
    ASSUME NEW L
    PROVE  /\ {e.index : e \in Starts(L)} = Begun(L)
           /\ \A e : e \in Starts(L) <=> \E k \in DOMAIN L : L[k] = e /\ e.event = "start"
           /\ \A i, b : BegunAs(L, i, b) <=> \E e \in Starts(L) : e.index = i /\ e.block = b
<1>1. \A e : e \in Starts(L) <=> \E k \in DOMAIN L : L[k] = e /\ e.event = "start"
  BY DEF Starts, ToSet
<1>2. \A x : x \in Begun(L) <=> \E k \in DOMAIN L : L[k].event = "start" /\ L[k].index = x
  BY DEF Begun
<1>3. \A x : x \in {e.index : e \in Starts(L)} <=> x \in Begun(L)
  BY <1>1, <1>2
<1>4. \A i, b : BegunAs(L, i, b) <=> \E e \in Starts(L) : e.index = i /\ e.block = b
  BY <1>1 DEF BegunAs
<1> QED
  BY <1>1, <1>3, <1>4

\* The next index is the one behind those in use.
LEMMA NextIs ==
    ASSUME NEW L, NEW n \in Nat, Begun(L) = 0..n - 1
    PROVE  NextContentIndex(L) = n
<1>1. {e.index : e \in Starts(L)} = 0..n - 1
  BY StartsOf
<1>2. CASE n = 0
  <2>1. Starts(L) = {}
    BY <1>1, <1>2
  <2> QED
    BY <2>1, <1>2 DEF NextContentIndex
<1>3. CASE n # 0
  <2> DEFINE I == {e.index : e \in Starts(L)}
             Top(i) == \A e \in Starts(L) : e.index <= i
  <2>1. n - 1 \in I /\ Top(n - 1) /\ Starts(L) # {}
    BY <1>1, <1>3
  <2>2. \A i \in I : Top(i) => i = n - 1
    BY <1>1, <2>1
  <2>3. (CHOOSE i \in I : Top(i)) = n - 1
    <3> HIDE DEF I, Top
    <3> QED
      BY <2>1, <2>2
  <2>4. NextContentIndex(L) = 1 + (n - 1)
    BY <2>1, <2>3 DEF NextContentIndex
  <2> QED
    BY <2>4
<1> QED
  BY <1>2, <1>3

\* Some of the starts of a carried sequence, in their order.
LEMMA StartsAmong ==
    ASSUME NEW a, NEW th, NEW L, Carried(L, a, th), NEW S, S \subseteq Starts(L)
    PROVE  /\ Among(L, S) \in Seq(AnEvent)
           /\ ToSet(Among(L, S)) = S
           /\ \A i, j \in DOMAIN Among(L, S) :
                 Among(L, S)[i].index = Among(L, S)[j].index => i = j
<1> DEFINE A == Among(L, S)
<1>1. L \in Seq(AnEvent) /\ S \subseteq ToSet(L)
  BY StartsOf DEF Carried, ToSet
<1>2. \A i, j \in DOMAIN L : L[i] \in S /\ L[i] = L[j] => i = j
  <2> SUFFICES ASSUME NEW i \in DOMAIN L, NEW j \in DOMAIN L, L[i] \in S, L[i] = L[j]
               PROVE  i = j
    OBVIOUS
  <2>1. L[i].event = "start"
    BY StartsOf
  <2> QED
    BY <2>1, StartOnce
<1>3. A \in Seq(AnEvent) /\ ToSet(A) = S /\ IsInjective(A)
  <2>1. ToSet(L) \cap S = S
    BY <1>1
  <2> QED
    BY <1>1, <1>2, <2>1, QueueAmong
<1> HIDE DEF A
<1>4. ASSUME NEW i \in DOMAIN A, NEW j \in DOMAIN A, A[i].index = A[j].index PROVE i = j
  <2>1. A[i] \in S /\ A[j] \in S
    BY <1>3 DEF ToSet
  <2>2. PICK k \in DOMAIN L, l \in DOMAIN L :
            L[k] = A[i] /\ L[l] = A[j] /\ A[i].event = "start" /\ A[j].event = "start"
    BY <2>1, StartsOf
  <2>3. k = l
    BY <2>2, <1>4, StartOnce
  <2> QED
    BY <2>2, <2>3, <1>3, <1>4 DEF IsInjective
<1> QED
  BY <1>3, <1>4 DEF A

LEMMA ReverseIs ==
    ASSUME NEW T, NEW s \in Seq(T)
    PROVE  /\ Reverse(s) \in Seq(T) /\ DOMAIN Reverse(s) = DOMAIN s
           /\ \A i \in DOMAIN s : Len(s) - i + 1 \in DOMAIN s /\ Reverse(s)[i] = s[Len(s) - i + 1]
           /\ ToSet(Reverse(s)) = ToSet(s)
<1>1. Len(s) \in Nat /\ DOMAIN s = 1..Len(s) /\ \A i \in 1..Len(s) : s[i] \in T
  BY LenProperties, ElementOfSeq
<1> DEFINE r == Reverse(s)
<1>2. /\ DOMAIN r = 1..Len(s)
      /\ \A i \in 1..Len(s) : Len(s) - i + 1 \in 1..Len(s) /\ r[i] = s[Len(s) - i + 1]
  BY <1>1 DEF Reverse
<1>3. r \in Seq(T)
  BY <1>1 DEF Reverse
<1> HIDE DEF r
<1>4. \A i \in 1..Len(s) : Len(s) - (Len(s) - i + 1) + 1 = i
  BY <1>1
<1>5. ToSet(r) = ToSet(s)
  <2>1. \A x : x \in ToSet(r) <=> \E i \in 1..Len(s) : r[i] = x
    BY <1>2, Zenon DEF ToSet
  <2>2. \A x : x \in ToSet(s) <=> \E i \in 1..Len(s) : s[i] = x
    BY <1>1, Zenon DEF ToSet
  <2>3. ASSUME NEW i \in 1..Len(s) PROVE (\E j \in 1..Len(s) : r[j] = s[i]) /\ \E j \in 1..Len(s) : s[j] = r[i]
    BY <1>2, <1>4
  <2>4. \A x : x \in ToSet(r) => x \in ToSet(s)
    BY <2>1, <2>2, <2>3
  <2>5. \A x : x \in ToSet(s) => x \in ToSet(r)
    BY <2>1, <2>2, <2>3
  <2> QED
    BY <2>4, <2>5
<1> QED
  BY <1>1, <1>2, <1>3, <1>5 DEF r

\* Closing stops each block that is open, once.
LEMMA ClosingIs ==
    ASSUME NEW a, NEW th, NEW L, Carried(L, a, th)
    PROVE  /\ Closing(L) \in Seq(AnEvent)
           /\ Follows(L, Closing(L), a, th)
           /\ Begun(Closing(L)) = {}
           /\ Begun(L) \subseteq Stopped(L) \cup Stopped(Closing(L))
<1> DEFINE A == Among(L, Unstopped(L))
           R == Reverse(A)
           C == Closing(L)
<1>1. Unstopped(L) \subseteq Starts(L)
  BY DEF Unstopped
<1>2. /\ A \in Seq(AnEvent) /\ ToSet(A) = Unstopped(L)
      /\ \A i, j \in DOMAIN A : A[i].index = A[j].index => i = j
  BY <1>1, StartsAmong
<1>3. C = [i \in DOMAIN R |-> [R[i] EXCEPT !.event = "stop"]]
  BY DEF Closing, OpenStack
<1> HIDE DEF A
<1>4. Len(A) \in Nat /\ DOMAIN A = 1..Len(A)
  BY <1>2, LenProperties
<1>5. /\ R \in Seq(AnEvent) /\ DOMAIN R = 1..Len(A) /\ ToSet(R) = Unstopped(L)
      /\ \A i \in 1..Len(A) : Len(A) - i + 1 \in 1..Len(A) /\ R[i] = A[Len(A) - i + 1]
  BY <1>2, <1>4, ReverseIs
<1>6. \A i, j \in DOMAIN R : R[i].index = R[j].index => i = j
  <2> SUFFICES ASSUME NEW i \in 1..Len(A), NEW j \in 1..Len(A), R[i].index = R[j].index
               PROVE  i = j
    BY <1>5
  <2>1. Len(A) - i + 1 = Len(A) - j + 1
    BY <1>2, <1>4, <1>5
  <2> QED
    BY <2>1, <1>4
<1> HIDE DEF R, C
<1>7. \A i \in DOMAIN R : R[i] \in AnEvent
  BY <1>5, <1>4, LenProperties, ElementOfSeq
<1>8. ASSUME NEW i \in DOMAIN R
      PROVE  /\ C[i] \in AnEvent /\ C[i].event = "stop" /\ C[i].index = R[i].index
             /\ C[i].block = R[i].block /\ C[i].attempt = R[i].attempt
  <2>1. C[i] = [R[i] EXCEPT !.event = "stop"] /\ R[i] \in AnEvent
    BY <1>3, <1>7
  <2> QED
    BY <2>1, StopOf
<1>9. DOMAIN C = DOMAIN R /\ C \in Seq(AnEvent)
  <2>1. DOMAIN C = 1..Len(A)
    BY <1>3, <1>5
  <2>2. C \in [1..Len(A) -> AnEvent]
    BY <1>3, <1>5, <1>8
  <2> QED
    BY <2>1, <2>2, <1>4, <1>5
<1>10. ASSUME NEW i \in DOMAIN R
       PROVE  \E k \in DOMAIN L : L[k] = R[i] /\ L[k].event = "start" /\ R[i].index \notin Stopped(L)
  <2>1. R[i] \in Unstopped(L)
    BY <1>5 DEF ToSet
  <2> QED
    BY <2>1, StartsOf DEF Unstopped
<1>11. ASSUME NEW m \in DOMAIN C
       PROVE  /\ OfAttempt(C[m], a, th)
              /\ C[m].event = "stop"
              /\ BegunAs(L, C[m].index, C[m].block)
              /\ C[m].index \notin Stopped(L)
              /\ \A j \in 1..m - 1 : ~(C[j].event = "stop" /\ C[j].index = C[m].index)
  <2>1. PICK k \in DOMAIN L : L[k] = R[m] /\ L[k].event = "start" /\ R[m].index \notin Stopped(L)
    BY <1>9, <1>10
  <2>2. OfAttempt(L[k], a, th)
    BY DEF Carried
  <2>3. C[m].event = "stop" /\ C[m].index = R[m].index
             /\ C[m].block = R[m].block /\ C[m].attempt = R[m].attempt
    BY <1>8, <1>9
  <2>4. ASSUME NEW j \in 1..m - 1, C[j].index = C[m].index PROVE FALSE
    <3>1. j \in DOMAIN R /\ m \in DOMAIN R /\ j # m
      BY <1>5, <1>9, <1>4
    <3>2. R[j].index = R[m].index
      BY <3>1, <2>4, <1>8
    <3> QED
      BY <3>1, <3>2, <1>6
  <2> QED
    BY <2>1, <2>2, <2>3, <2>4 DEF OfAttempt, BegunAs
<1>12. Follows(L, C, a, th)
  BY <1>11 DEF Follows
<1>13. Begun(C) = {}
  BY <1>11 DEF Begun
<1>14. Begun(L) \subseteq Stopped(L) \cup Stopped(C)
  <2> SUFFICES ASSUME NEW k \in DOMAIN L, L[k].event = "start", L[k].index \notin Stopped(L)
               PROVE  L[k].index \in Stopped(C)
    BY DEF Begun
  <2>1. L[k] \in Unstopped(L)
    BY StartsOf DEF Unstopped
  <2>2. PICK i \in DOMAIN R : R[i] = L[k]
    BY <2>1, <1>5 DEF ToSet
  <2> QED
    BY <2>2, <1>8, <1>9 DEF Stopped
<1> QED
  BY <1>9, <1>12, <1>13, <1>14 DEF C

-----------------------------------------------------------------------------
(* What goes out after a break. *)

LEMMA StoppedBegun ==
    ASSUME NEW a, NEW th, NEW L, Carried(L, a, th)
    PROVE  Stopped(L) \subseteq Begun(L)
<1> SUFFICES ASSUME NEW k \in DOMAIN L, L[k].event = "stop" PROVE L[k].index \in Begun(L)
  BY DEF Stopped
<1>1. DOMAIN L = 1..Len(L) /\ Len(L) \in Nat
  BY LenProperties DEF Carried
<1>2. Placed(L, k)
  BY DEF Carried
<1>3. PICK j \in 1..k - 1 : L[j].event = "start" /\ L[j].index = L[k].index
  BY <1>2 DEF Placed
<1>4. j \in DOMAIN L
  BY <1>1
<1> QED
  BY <1>3, <1>4 DEF Begun

LEMMA Single ==
    ASSUME NEW e \in AnEvent
    PROVE  /\ <<e>> \in Seq(AnEvent) /\ DOMAIN <<e>> = {1} /\ <<e>>[1] = e
           /\ Begun(<<e>>) = IF e.event = "start" THEN {e.index} ELSE {}
           /\ Stopped(<<e>>) = IF e.event = "stop" THEN {e.index} ELSE {}
<1>1. <<e>> \in Seq(AnEvent) /\ DOMAIN <<e>> = {1} /\ <<e>>[1] = e
  OBVIOUS
<1>2. Begun(<<e>>) = IF e.event = "start" THEN {e.index} ELSE {}
  BY <1>1 DEF Begun
<1>3. Stopped(<<e>>) = IF e.event = "stop" THEN {e.index} ELSE {}
  BY <1>1 DEF Stopped
<1> QED
  BY <1>1, <1>2, <1>3

\* One event that may follow.
LEMMA JoinedOne ==
    ASSUME NEW a, NEW th, NEW L, Carried(L, a, th), NEW e \in AnEvent, OfAttempt(e, a, th),
           e.event = "start" => e.index \notin Begun(L),
           e.event \in {"delta", "stop"} => BegunAs(L, e.index, e.block),
           NeedsOpen(e) => e.index \notin Stopped(L)
    PROVE  Carried(L \o <<e>>, a, th)
<1>1. <<e>> \in Seq(AnEvent) /\ DOMAIN <<e>> = {1} /\ <<e>>[1] = e
  BY Single
<1> DEFINE C == <<e>>
<1> HIDE DEF C
<1>2. Follows(L, C, a, th)
  BY <1>1 DEF Follows, C
<1> QED
  BY <1>1, <1>2, Joined DEF C

\* The events that tell the end of a message may follow anything.
LEMMA JoinedEnd ==
    ASSUME NEW a, NEW th, NEW L, Carried(L, a, th), NEW e \in AnEvent, OfAttempt(e, a, th),
           e.event \in {"message_delta", "message_stop"}
    PROVE  /\ Carried(L \o <<e>>, a, th)
           /\ Begun(L \o <<e>>) = Begun(L) /\ Stopped(L \o <<e>>) = Stopped(L)
           /\ HasEnd(L) \/ e.event = "message_stop" => HasEnd(L \o <<e>>)
           /\ DeltaCount(L \o <<e>>) >= DeltaCount(L)
<1>1. <<e>> \in Seq(AnEvent) /\ DOMAIN <<e>> = {1} /\ <<e>>[1] = e
      /\ Begun(<<e>>) = {} /\ Stopped(<<e>>) = {}
  BY Single
<1> DEFINE C == <<e>>
<1>2. L \in Seq(AnEvent)
  BY DEF Carried
<1>3. Carried(L \o <<e>>, a, th)
  BY JoinedOne DEF NeedsOpen
<1>4. e.event = "message_stop" => HasEnd(<<e>>)
  BY <1>1 DEF HasEnd
<1> HIDE DEF C
<1>5. /\ Begun(L \o C) = Begun(L) \cup Begun(C) /\ Stopped(L \o C) = Stopped(L) \cup Stopped(C)
      /\ HasEnd(L) \/ HasEnd(C) => HasEnd(L \o C)
      /\ DeltaCount(L \o C) >= DeltaCount(L)
  BY <1>1, <1>2, JoinedSets, JoinedDeltas DEF C
<1> QED
  BY <1>1, <1>3, <1>4, <1>5 DEF C

\* What a stream that has ended must be.
Whole(L, a, th) == Carried(L, a, th) /\ Begun(L) \subseteq Stopped(L) /\ HasEnd(L)

LEMMA Closed ==
    ASSUME NEW a, NEW th, NEW L, Carried(L, a, th)
    PROVE  LET M == L \o Closing(L)
           IN  /\ Carried(M, a, th) /\ Begun(M) = Begun(L) /\ Begun(M) \subseteq Stopped(M)
               /\ HasEnd(L) => HasEnd(M)
               /\ DeltaCount(M) >= DeltaCount(L) /\ DeltaCount(M) \in Nat
<1>1. L \in Seq(AnEvent)
  BY DEF Carried
<1>2. /\ Closing(L) \in Seq(AnEvent) /\ Follows(L, Closing(L), a, th)
      /\ Begun(Closing(L)) = {} /\ Begun(L) \subseteq Stopped(L) \cup Stopped(Closing(L))
  BY ClosingIs
<1>3. Carried(L \o Closing(L), a, th)
  BY <1>2, Joined
<1>4. /\ Begun(L \o Closing(L)) = Begun(L) \cup Begun(Closing(L))
      /\ Stopped(L \o Closing(L)) = Stopped(L) \cup Stopped(Closing(L))
      /\ HasEnd(L) => HasEnd(L \o Closing(L))
  BY <1>1, <1>2, JoinedSets
<1>5. DeltaCount(L \o Closing(L)) >= DeltaCount(L) /\ DeltaCount(L \o Closing(L)) \in Nat
  BY <1>1, <1>2, JoinedDeltas
<1> QED
  BY <1>2, <1>3, <1>4, <1>5

LEMMA SuccessEnds ==
    ASSUME early_retries \in Nat, NEW out, Carried(out, early_retries, thinking),
           NEW r \in BlockOrReason, r # "thinking", finished = "stop" => HasEnd(out),
           SuccessTail(out, r)
    PROVE  /\ phase' = "ended" /\ held' = <<>> /\ committed'
           /\ Whole(sent', early_retries, thinking)
           /\ DeltaCount(sent') >= DeltaCount(out)
<1> DEFINE er == early_retries
           L1 == out \o Closing(out)
           reason == IF finished = "no" THEN <<Event("message_delta", None, r)>> ELSE <<>>
           L2 == L1 \o reason
           stop == IF finished = "stop" THEN <<>> ELSE <<Event("message_stop", None, "none")>>
           L3 == L2 \o stop
<1>1. phase' = "ended" /\ held' = <<>> /\ committed' /\ sent' = L3
  BY DEF SuccessTail, EndWith
<1>2. /\ Carried(L1, er, thinking) /\ Begun(L1) \subseteq Stopped(L1)
      /\ HasEnd(out) => HasEnd(L1)
      /\ DeltaCount(L1) >= DeltaCount(out) /\ DeltaCount(L1) \in Nat
  BY Closed
<1>3. DeltaCount(out) \in Nat
  BY JoinedDeltas, EmptySeq DEF Carried
<1> HIDE DEF L1
<1>4. "message_delta" \in EventType /\ "message_stop" \in EventType /\ None \in Int
  BY DEF EventType, None
<1>13. "none" \in BlockOrReason /\ "none" # "thinking"
  BY DEF BlockOrReason
<1> DEFINE e == Event("message_delta", None, r)
           f == Event("message_stop", None, "none")
<1>14. e \in AnEvent /\ e.event = "message_delta" /\ e.attempt = er /\ e.block = r
  BY <1>4, EventIs
<1>15. f \in AnEvent /\ f.event = "message_stop" /\ f.attempt = er /\ f.block = "none"
  BY <1>4, <1>13, EventIs
<1>5. /\ e \in AnEvent /\ OfAttempt(e, er, thinking) /\ e.event = "message_delta"
      /\ f \in AnEvent /\ OfAttempt(f, er, thinking) /\ f.event = "message_stop"
  <2> HIDE DEF e, f
  <2> QED
    BY <1>13, <1>14, <1>15 DEF OfAttempt
<1> HIDE DEF e, f
<1>6. /\ Carried(L2, er, thinking) /\ Begun(L2) \subseteq Stopped(L2)
      /\ HasEnd(L1) => HasEnd(L2)
      /\ DeltaCount(L2) >= DeltaCount(L1) /\ DeltaCount(L2) \in Nat
  <2>1. CASE finished = "no"
    <3>1. L2 = L1 \o <<e>>
      BY <2>1 DEF e
    <3>2. Carried(L2, er, thinking) /\ Begun(L2) = Begun(L1) /\ Stopped(L2) = Stopped(L1)
          /\ (HasEnd(L1) => HasEnd(L2)) /\ DeltaCount(L2) >= DeltaCount(L1)
      BY <3>1, <1>2, <1>5, JoinedEnd
    <3>3. DeltaCount(L2) \in Nat
      BY <3>2, JoinedDeltas, EmptySeq DEF Carried
    <3> QED
      BY <3>2, <3>3, <1>2
  <2>2. CASE finished # "no"
    <3>1. L2 = L1
      BY <2>2, <1>2, ConcatEmptySeq DEF Carried
    <3> HIDE DEF L2
    <3> QED
      BY <3>1, <1>2
  <2> QED
    BY <2>1, <2>2
<1> HIDE DEF L2
<1>7. /\ Carried(L3, er, thinking) /\ Begun(L3) \subseteq Stopped(L3) /\ HasEnd(L3)
      /\ DeltaCount(L3) >= DeltaCount(L2)
  <2>1. CASE finished # "stop"
    <3>1. L3 = L2 \o <<f>>
      BY <2>1 DEF f
    <3> HIDE DEF L3
    <3>2. Carried(L3, er, thinking) /\ Begun(L3) = Begun(L2) /\ Stopped(L3) = Stopped(L2)
          /\ HasEnd(L3) /\ DeltaCount(L3) >= DeltaCount(L2)
      BY <3>1, <1>6, <1>5, JoinedEnd
    <3> QED
      BY <3>2, <1>6
  <2>2. CASE finished = "stop"
    <3>1. L3 = L2
      BY <2>2, <1>6, ConcatEmptySeq DEF Carried
    <3> QED
      BY <3>1, <2>2, <1>2, <1>6
  <2> QED
    BY <2>1, <2>2
<1>8. DeltaCount(L3) \in Nat
  BY <1>7, JoinedDeltas, EmptySeq DEF Carried
<1> HIDE DEF L3
<1> QED
  BY <1>1, <1>2, <1>3, <1>6, <1>7, <1>8 DEF Whole

\* The block that tells the error, behind everything else.
LEMMA ErrorEnds ==
    ASSUME early_retries \in Nat, Carried(Emitted, early_retries, thinking),
           NEW n \in Nat, Begun(Emitted) = 0..n - 1, ErrorTail
    PROVE  /\ phase' = "ended" /\ held' = <<>> /\ committed'
           /\ Whole(sent', early_retries, thinking)
           /\ DeltaCount(sent') >= DeltaCount(Emitted)
<1> DEFINE er == early_retries
           L == Emitted \o Closing(Emitted)
           e1 == Event("start", n, "text")
           e2 == Event("delta", n, "text")
           e3 == Event("stop", n, "text")
           e4 == Event("message_delta", None, "end_turn")
           e5 == Event("message_stop", None, "none")
           C == <<e1, e2, e3, e4, e5>>
<1>1. NextContentIndex(Emitted) = n
  BY NextIs
<1>2. phase' = "ended" /\ held' = <<>> /\ committed' /\ sent' = L \o C
  BY <1>1 DEF ErrorTail, EndWith
<1>3. /\ Carried(L, er, thinking) /\ Begun(L) = Begun(Emitted) /\ Begun(L) \subseteq Stopped(L)
      /\ DeltaCount(L) >= DeltaCount(Emitted) /\ DeltaCount(L) \in Nat
  BY Closed
<1> HIDE DEF L
<1>4. /\ "start" \in EventType /\ "delta" \in EventType /\ "stop" \in EventType
      /\ "message_delta" \in EventType /\ "message_stop" \in EventType
      /\ "text" \in BlockOrReason /\ "end_turn" \in BlockOrReason /\ None \in Int /\ n \in Int
  BY DEF EventType, BlockOrReason, None, Kind
<1>13. "none" \in BlockOrReason /\ "none" # "thinking"
  BY DEF BlockOrReason
<1>14. e1 \in AnEvent /\ e1.event = "start" /\ e1.index = n /\ e1.block = "text" /\ e1.attempt = er
  BY <1>4, EventIs
<1>15. e2 \in AnEvent /\ e2.event = "delta" /\ e2.index = n /\ e2.block = "text" /\ e2.attempt = er
  BY <1>4, EventIs
<1>16. e3 \in AnEvent /\ e3.event = "stop" /\ e3.index = n /\ e3.block = "text" /\ e3.attempt = er
  BY <1>4, EventIs
<1>17. e4 \in AnEvent /\ e4.event = "message_delta" /\ e4.block = "end_turn" /\ e4.attempt = er
  BY <1>4, EventIs
<1>18. e5 \in AnEvent /\ e5.event = "message_stop" /\ e5.block = "none" /\ e5.attempt = er
  BY <1>4, <1>13, EventIs
<1> HIDE DEF e1, e2, e3, e4, e5
<1>6. /\ C \in Seq(AnEvent) /\ DOMAIN C = 1..5
      /\ C[1] = e1 /\ C[2] = e2 /\ C[3] = e3 /\ C[4] = e4 /\ C[5] = e5
  <2>1. e1 \in AnEvent /\ e2 \in AnEvent /\ e3 \in AnEvent /\ e4 \in AnEvent /\ e5 \in AnEvent
    BY <1>14, <1>15, <1>16, <1>17, <1>18
  <2> QED
    BY ONLY <2>1
<1>19. ASSUME NEW m \in 1..5 PROVE OfAttempt(C[m], er, thinking)
  <2> HIDE DEF C
  <2>1. m = 1 \/ m = 2 \/ m = 3 \/ m = 4 \/ m = 5
    OBVIOUS
  <2> QED
    BY <2>1, <1>6, <1>13, <1>14, <1>15, <1>16, <1>17, <1>18 DEF OfAttempt
<1>5. /\ C[1].event = "start" /\ C[2].event = "delta" /\ C[3].event = "stop"
      /\ C[4].event = "message_delta" /\ C[5].event = "message_stop"
      /\ \A m \in {1, 2, 3} : C[m].index = n /\ C[m].block = "text"
  <2> HIDE DEF C
  <2> QED
    BY <1>6, <1>14, <1>15, <1>16, <1>17, <1>18
<1>20. ASSUME NEW m \in 1..5
       PROVE  /\ C[m].event = "start" => m = 1
              /\ C[m].event = "delta" => m = 2
              /\ C[m].event = "stop" => m = 3
  <2> HIDE DEF C
  <2>1. m = 1 \/ m = 2 \/ m = 3 \/ m = 4 \/ m = 5
    OBVIOUS
  <2> QED
    BY <2>1, <1>5
<1> HIDE DEF C
<1>7. n \notin Begun(L) /\ n \notin Stopped(L)
  BY <1>3, StoppedBegun
<1>8. Follows(L, C, er, thinking)
  <2> SUFFICES ASSUME NEW m \in 1..5
      PROVE
        /\ OfAttempt(C[m], er, thinking)
        /\ C[m].event = "start" =>
              /\ C[m].index \notin Begun(L)
              /\ \A j \in 1..m - 1 : ~(C[j].event = "start" /\ C[j].index = C[m].index)
        /\ C[m].event \in {"delta", "stop"} =>
              \/ BegunAs(L, C[m].index, C[m].block)
              \/ \E j \in 1..m - 1 : C[j].event = "start" /\ C[j].index = C[m].index
                                     /\ C[j].block = C[m].block
        /\ NeedsOpen(C[m]) =>
              /\ C[m].index \notin Stopped(L)
              /\ \A j \in 1..m - 1 : ~(C[j].event = "stop" /\ C[j].index = C[m].index)
    BY <1>6 DEF Follows
  <2>1. OfAttempt(C[m], er, thinking)
    BY <1>19
  <2>2. C[m].event = "start" => m = 1
    BY <1>20
  <2>3. C[m].event \in {"delta", "stop"} => m \in {2, 3} /\ 1 \in 1..m - 1
    BY <1>20
  <2>4. NeedsOpen(C[m]) => m \in {2, 3}
    BY <1>20 DEF NeedsOpen
  <2>5. m = 1 => \A j \in 1..m - 1 : FALSE
    OBVIOUS
  <2>6. m \in {2, 3} => \A j \in 1..m - 1 : C[j].event # "stop"
    BY <1>20
  <2> QED
    BY <2>1, <2>2, <2>3, <2>4, <2>5, <2>6, <1>5, <1>7
<1>9. Begun(C) = {n} /\ Stopped(C) = {n} /\ HasEnd(C)
  <2>1. 1 \in DOMAIN C /\ 3 \in DOMAIN C /\ 5 \in DOMAIN C
    BY <1>6
  <2>2. \A m \in DOMAIN C : (C[m].event = "start" => m = 1) /\ (C[m].event = "stop" => m = 3)
    BY <1>6, <1>20
  <2>3. Begun(C) = {n}
    BY <2>1, <2>2, <1>5, <1>6 DEF Begun
  <2>4. Stopped(C) = {n}
    BY <2>1, <2>2, <1>5, <1>6 DEF Stopped
  <2>5. HasEnd(C)
    BY <2>1, <1>5, <1>6 DEF HasEnd
  <2> QED
    BY <2>3, <2>4, <2>5
<1>10. Carried(L \o C, er, thinking)
  BY <1>3, <1>6, <1>8, Joined
<1>11. /\ Begun(L \o C) = Begun(L) \cup {n} /\ Stopped(L \o C) = Stopped(L) \cup {n}
       /\ HasEnd(L \o C)
       /\ DeltaCount(L \o C) >= DeltaCount(L) /\ DeltaCount(L \o C) \in Nat
  <2>1. L \in Seq(AnEvent)
    BY <1>3 DEF Carried
  <2>2. Begun(L \o C) = Begun(L) \cup {n} /\ Stopped(L \o C) = Stopped(L) \cup {n}
        /\ HasEnd(L \o C)
    BY <2>1, <1>6, <1>9, JoinedSets
  <2>3. DeltaCount(L \o C) >= DeltaCount(L) /\ DeltaCount(L \o C) \in Nat
    BY <2>1, <1>6, JoinedDeltas
  <2> QED
    BY <2>2, <2>3
<1>12. DeltaCount(Emitted) \in Nat
  BY JoinedDeltas, EmptySeq DEF Carried
<1> QED
  BY <1>2, <1>3, <1>10, <1>11, <1>12 DEF Whole

\* A continuation goes on with a block that is open or begins one.
LEMMA SuffixCarries ==
    ASSUME early_retries \in Nat, NEW L, Carried(L, early_retries, thinking),
           NEW n \in Nat, Begun(L) = 0..n - 1,
           NEW b \in {"text", "thinking"}, b = "thinking" => thinking
    PROVE  LET M == Suffix(L, b)
           IN  /\ Carried(M, early_retries, thinking)
               /\ \E l \in Nat : Begun(M) = 0..l - 1
               /\ HasEnd(L) => HasEnd(M)
               /\ DeltaCount(M) >= DeltaCount(L)
<1> DEFINE er == early_retries
           S == {e \in Unstopped(L) : e.block = b}
           open == Among(L, S)
           index == IF open = <<>> THEN NextContentIndex(L) ELSE Last(open).index
           start == IF open = <<>> THEN <<Event("start", index, b)>> ELSE <<>>
           s == Event("start", index, b)
           d == Event("delta", index, b)
           N == L \o start
           M == N \o <<d>>
<1>1. Suffix(L, b) = M
  BY DEF Suffix
<1>2. L \in Seq(AnEvent)
  BY DEF Carried
<1>3. S \subseteq Starts(L)
  BY DEF Unstopped
<1>4. open \in Seq(AnEvent) /\ ToSet(open) = S
  <2> HIDE DEF S
  <2> QED
    BY <1>3, StartsAmong
<1>5. NextContentIndex(L) = n
  BY NextIs
<1>6. "start" \in EventType /\ "delta" \in EventType /\ b \in BlockOrReason
  BY DEF EventType, BlockOrReason, Kind
<1>7. n \notin Begun(L) /\ n \notin Stopped(L)
  BY StoppedBegun
<1> HIDE DEF open
<1>8. open # <<>> => BegunAs(L, index, b) /\ index \notin Stopped(L) /\ index \in Int
  <2> SUFFICES ASSUME open # <<>> PROVE BegunAs(L, index, b) /\ index \notin Stopped(L) /\ index \in Int
    OBVIOUS
  <2>1. Len(open) \in DOMAIN open
    BY <1>4, LenProperties, EmptySeq
  <2>2. Last(open) \in S /\ index = Last(open).index
    BY <2>1, <1>4 DEF ToSet, Last
  <2>3. PICK k \in DOMAIN L : L[k] = Last(open) /\ L[k].event = "start"
    BY <2>2, <1>3, StartsOf
  <2>4. L[k] \in AnEvent
    BY <1>2, LenProperties, ElementOfSeq
  <2>5. index \in Int
    BY <2>2, <2>3, <2>4 DEF AnEvent
  <2> QED
    BY <2>2, <2>3, <2>5 DEF BegunAs, Unstopped
<1>9. index \in Int /\ (open = <<>> => index = n)
  BY <1>5, <1>8
<1> HIDE DEF index
<1>10. /\ s \in AnEvent /\ s.event = "start" /\ s.index = index /\ s.block = b /\ s.attempt = er
       /\ ~s.repair
  BY <1>6, <1>9, EventIs
<1>11. /\ d \in AnEvent /\ d.event = "delta" /\ d.index = index /\ d.block = b /\ d.attempt = er
       /\ ~d.repair
  BY <1>6, <1>9, EventIs
<1>12. OfAttempt(s, er, thinking) /\ OfAttempt(d, er, thinking)
  BY <1>10, <1>11 DEF OfAttempt
<1>13. start = IF open = <<>> THEN <<s>> ELSE <<>>
  OBVIOUS
<1> HIDE DEF s, d, start
<1>14. /\ Carried(N, er, thinking) /\ BegunAs(N, index, b) /\ index \notin Stopped(N)
       /\ \E l \in Nat : Begun(N) = 0..l - 1
       /\ (HasEnd(L) => HasEnd(N)) /\ DeltaCount(N) >= DeltaCount(L) /\ DeltaCount(N) \in Nat
  <2>1. CASE open = <<>>
    <3> DEFINE C == <<s>>
    <3>1. /\ C \in Seq(AnEvent) /\ DOMAIN C = {1} /\ C[1] = s
          /\ Begun(C) = {n} /\ Stopped(C) = {}
      BY <1>9, <1>10, <2>1, Single
    <3>2. BegunAs(C, index, b)
      BY <3>1, <1>10 DEF BegunAs
    <3>3. Carried(L \o C, er, thinking)
      BY <1>2, <1>7, <1>9, <1>10, <1>12, <2>1, JoinedOne DEF NeedsOpen
    <3>4. N = L \o C
      BY <2>1, <1>13
    <3> HIDE DEF C
    <3> HIDE DEF N
    <3>8. /\ Begun(N) = Begun(L) \cup Begun(C) /\ Stopped(N) = Stopped(L) \cup Stopped(C)
          /\ HasEnd(N) <=> HasEnd(L) \/ HasEnd(C)
          /\ \A i, c : BegunAs(N, i, c) <=> BegunAs(L, i, c) \/ BegunAs(C, i, c)
      BY <3>1, <3>4, <1>2, JoinedSets
    <3>5. /\ Begun(N) = (0..n - 1) \cup {n} /\ Stopped(N) = Stopped(L)
          /\ BegunAs(N, index, b) /\ (HasEnd(L) => HasEnd(N))
      BY <3>1, <3>2, <3>8
    <3>6. DeltaCount(N) >= DeltaCount(L) /\ DeltaCount(N) \in Nat
      BY <3>1, <3>4, <1>2, JoinedDeltas
    <3>7. Begun(N) = 0..(n + 1) - 1
      BY <3>5
    <3> QED
      BY <3>3, <3>4, <3>5, <3>6, <3>7, <1>7, <1>9, <2>1
  <2>2. CASE open # <<>>
    <3>1. N = L
      BY <2>2, <1>2, <1>13, ConcatEmptySeq
    <3>2. DeltaCount(L) \in Nat
      BY <1>2, EmptySeq, JoinedDeltas
    <3> QED
      BY <3>1, <3>2, <2>2, <1>8 DEF index
  <2> QED
    BY <2>1, <2>2
<1> HIDE DEF N
<1>15. N \in Seq(AnEvent)
  BY <1>14 DEF Carried
<1>16. Carried(M, er, thinking)
  BY <1>11, <1>12, <1>14, JoinedOne
<1>17. <<d>> \in Seq(AnEvent) /\ Begun(<<d>>) = {}
  BY <1>11, Single
<1> DEFINE D == <<d>>
<1> HIDE DEF D
<1>18. /\ Begun(N \o D) = Begun(N) /\ (HasEnd(N) => HasEnd(N \o D))
       /\ DeltaCount(N \o D) >= DeltaCount(N) /\ DeltaCount(N \o D) \in Nat
  <2>1. D \in Seq(AnEvent) /\ Begun(D) = {}
    BY <1>17 DEF D
  <2>2. Begun(N \o D) = Begun(N) \cup Begun(D) /\ (HasEnd(N \o D) <=> HasEnd(N) \/ HasEnd(D))
    BY <2>1, <1>15, JoinedSets
  <2>3. DeltaCount(N \o D) >= DeltaCount(N) /\ DeltaCount(N \o D) \in Nat
    BY <2>1, <1>15, JoinedDeltas
  <2> QED
    BY <2>1, <2>2, <2>3
<1>19. /\ Begun(M) = Begun(N) /\ (HasEnd(N) => HasEnd(M))
       /\ DeltaCount(M) >= DeltaCount(N) /\ DeltaCount(M) \in Nat
  BY <1>18 DEF D
<1>20. DeltaCount(L) \in Nat
  BY <1>2, EmptySeq, JoinedDeltas
<1> HIDE DEF M
<1> QED
  BY <1>1, <1>14, <1>16, <1>19, <1>20

\* The deltas that complete the tools belong to tools that were started.
LEMMA RepairsCarry ==
    ASSUME early_retries \in Nat, NEW L, Carried(L, early_retries, thinking)
    PROVE  LET M == L \o Repairs(L)
           IN  /\ Carried(M, early_retries, thinking)
               /\ HasEnd(L) => HasEnd(M)
               /\ DeltaCount(M) >= DeltaCount(L)
<1> DEFINE er == early_retries
           S == {t \in Tools(L) : Arguments(L, t.index) # "complete"}
           B == Among(L, S)
           R == Repairs(L)
<1>1. R = [i \in DOMAIN B |-> [Event("delta", B[i].index, "tool_use")
                                     EXCEPT !.json = "complete", !.repair = TRUE]]
  BY DEF Repairs
<1>2. L \in Seq(AnEvent) /\ S \subseteq Starts(L)
  BY DEF Carried, Tools
<1>3. B \in Seq(AnEvent) /\ ToSet(B) = S
  <2> HIDE DEF S
  <2> QED
    BY <1>2, StartsAmong
<1>4. \A t \in S : t.block = "tool_use"
  BY DEF Tools
<1> HIDE DEF S, B, R
<1>5. ASSUME NEW i \in DOMAIN B
      PROVE  /\ R[i] \in AnEvent /\ OfAttempt(R[i], er, thinking)
             /\ R[i].event = "delta" /\ R[i].repair
             /\ BegunAs(L, R[i].index, R[i].block)
  <2>1. B[i] \in S
    BY <1>3 DEF ToSet
  <2>2. PICK k \in DOMAIN L : L[k] = B[i] /\ L[k].event = "start"
    BY <2>1, <1>2, StartsOf
  <2>3. L[k] \in AnEvent
    BY <1>2, LenProperties, ElementOfSeq
  <2>4. B[i].index \in Int
    BY <2>2, <2>3 DEF AnEvent
  <2> DEFINE e == Event("delta", B[i].index, "tool_use")
             f == [e EXCEPT !.json = "complete"]
             g == [f EXCEPT !.repair = TRUE]
  <2>5. R[i] = [e EXCEPT !.json = "complete", !.repair = TRUE]
    BY <1>1
  <2>6. R[i] = g
    BY <2>5
  <2>7. "delta" \in EventType /\ "tool_use" \in BlockOrReason /\ "complete" \in Json
    BY DEF EventType, BlockOrReason, Kind, Json
  <2>8. /\ e \in AnEvent /\ e.event = "delta" /\ e.index = B[i].index /\ e.block = "tool_use"
        /\ e.attempt = er
    BY <2>4, <2>7, EventIs
  <2> HIDE DEF e
  <2>9. /\ f \in AnEvent /\ f.event = "delta" /\ f.index = B[i].index /\ f.block = "tool_use"
        /\ f.attempt = er
    BY <2>7, <2>8 DEF AnEvent
  <2> HIDE DEF f
  <2>10. /\ g \in AnEvent /\ g.event = "delta" /\ g.index = B[i].index /\ g.block = "tool_use"
         /\ g.attempt = er
    BY <2>9 DEF AnEvent
  <2>11. g.repair
    BY <2>9 DEF AnEvent
  <2> HIDE DEF g
  <2>12. BegunAs(L, R[i].index, R[i].block)
    BY <2>1, <2>2, <2>6, <2>10, <1>4 DEF BegunAs
  <2> QED
    BY <2>6, <2>10, <2>11, <2>12 DEF OfAttempt
<1>6. R \in Seq(AnEvent) /\ DOMAIN R = DOMAIN B
  <2>1. DOMAIN B = 1..Len(B) /\ Len(B) \in Nat
    BY <1>3, LenProperties
  <2>2. R \in [1..Len(B) -> AnEvent]
    BY <1>1, <1>5, <2>1
  <2> QED
    BY <2>1, <2>2
<1>7. Follows(L, R, er, thinking)
  BY <1>5, <1>6 DEF Follows, NeedsOpen
<1>8. Carried(L \o R, er, thinking)
  BY <1>6, <1>7, Joined
<1>9. (HasEnd(L) => HasEnd(L \o R)) /\ DeltaCount(L \o R) >= DeltaCount(L)
  BY <1>2, <1>6, JoinedSets, JoinedDeltas
<1> QED
  BY <1>8, <1>9 DEF R

-----------------------------------------------------------------------------
(* The policy's state and what was emitted. *)

\* The blocks the state calls open are those of L that were started and not
\* stopped, and the next index is the one behind those in use.
Holds(L, s, k) ==
    /\ s \in PolicyState
    /\ Begun(L) = 0..s.next - 1
    /\ \A u \in Index : s.down[u] < s.next
    /\ IsFiniteSet(s.open)
    /\ s.open \cap s.suppressed = {}
    /\ \A u \in s.open : BegunAs(L, s.down[u], k[u]) /\ s.down[u] \notin Stopped(L)
    /\ \A u, v \in s.open : s.down[u] = s.down[v] => u = v
    /\ \A i \in Begun(L) : i \in Stopped(L) \/ \E u \in s.open : s.down[u] = i

LEMMA SetToSeqIs ==
    ASSUME NEW S, IsFiniteSet(S)
    PROVE  /\ Cardinality(S) \in Nat
           /\ SetToSeq(S) \in [1..Cardinality(S) -> S]
           /\ \A i, j \in 1..Cardinality(S) : SetToSeq(S)[i] = SetToSeq(S)[j] => i = j
           /\ \A x \in S : \E i \in 1..Cardinality(S) : SetToSeq(S)[i] = x
<1> DEFINE n == Cardinality(S)
           f == SetToSeq(S)
<1>1. n \in Nat /\ ExistsBijection(1..n, S)
  BY FS_CardinalityType
<1>2. \E g \in [1..n -> S] : IsInjective(g)
  BY <1>1 DEF ExistsBijection, Bijection, Injection, IsInjective
<1>3. f \in [1..n -> S] /\ IsInjective(f)
  BY <1>2 DEF SetToSeq
<1> HIDE DEF f
<1>4. \A i, j \in 1..n : f[i] = f[j] => i = j
  BY <1>3 DEF IsInjective
<1>5. f \in Injection(1..n, S)
  BY <1>3, <1>4 DEF Injection
<1>6. Cardinality(1..n) = n
  <2>1. 1 \in Int /\ n \in Int
    BY <1>1
  <2>2. Cardinality(1..n) = IF 1 > n THEN 0 ELSE n - 1 + 1
    BY <2>1, FS_Interval
  <2> QED
    BY <2>2, <1>1
<1>7. f \in Surjection(1..n, S)
  BY <1>5, <1>6, FS_Injection
<1>8. \A x \in S : \E i \in 1..n : f[i] = x
  BY <1>7 DEF Surjection
<1> QED
  BY <1>1, <1>3, <1>4, <1>8 DEF f

\* Closing the others stops every block that is open.
LEMMA OthersClosed ==
    ASSUME early_retries \in Nat, kind \in [Index -> Kind], Index \subseteq Nat,
           NEW L, Carried(L, early_retries, thinking), NEW s, Holds(L, s, kind),
           \A o \in s.open : ~Dropped(o),
           NEW u \in Index, u \notin s.open
    PROVE  LET c == CloseOthers(s, u)
           IN  /\ c.out \in Seq(AnEvent)
               /\ Carried(L \o c.out, early_retries, thinking)
               /\ Holds(L \o c.out, c.state, kind)
               /\ c.state.open = {} /\ c.state.dropped = s.dropped
               /\ HasEnd(L) => HasEnd(L \o c.out)
               /\ DeltaCount(L \o c.out) >= DeltaCount(L)
<1> DEFINE er == early_retries
           c == CloseOthers(s, u)
           n == Cardinality(s.open)
           f == SetToSeq(s.open)
           C == [i \in 1..n |-> Event("stop", s.down[f[i]], kind[f[i]])]
           t == [[s EXCEPT !.open = {}] EXCEPT !.suppressed = @ \cup s.open]
<1>1. s.open \ {u} = s.open /\ s.open \ s.open = {}
  OBVIOUS
<1>2. s \in PolicyState /\ IsFiniteSet(s.open) /\ s.open \subseteq Index
  BY DEF Holds, PolicyState
<1>3. c.out = C
  BY <1>1 DEF CloseOthers, Result
<1>4. c.state = [s EXCEPT !.open = @ \ s.open, !.suppressed = @ \cup s.open]
  BY <1>1 DEF CloseOthers, Result
<1>5. t \in PolicyState /\ t.open = {} /\ t.suppressed = s.suppressed \cup s.open
      /\ t.next = s.next /\ t.down = s.down /\ t.dropped = s.dropped
  BY <1>2 DEF PolicyState
<1>6. c.state = t
  BY <1>2, <1>4 DEF PolicyState
<1> HIDE DEF c, t
<1>7. /\ n \in Nat /\ f \in [1..n -> s.open]
      /\ \A i, j \in 1..n : f[i] = f[j] => i = j
      /\ \A x \in s.open : \E i \in 1..n : f[i] = x
  BY <1>2, SetToSeqIs
<1> HIDE DEF f, n
<1>8. ASSUME NEW i \in 1..n
      PROVE  /\ f[i] \in s.open /\ f[i] \in Index
             /\ C[i] \in AnEvent /\ C[i].event = "stop" /\ C[i].index = s.down[f[i]]
             /\ C[i].block = kind[f[i]] /\ OfAttempt(C[i], er, thinking)
  <2>1. f[i] \in s.open /\ f[i] \in Index
    BY <1>2, <1>7
  <2>2. s.down[f[i]] \in Int
    BY <2>1, <1>2 DEF PolicyState
  <2>3. kind[f[i]] \in BlockOrReason /\ "stop" \in EventType
    BY <2>1 DEF BlockOrReason, EventType
  <2>4. C[i] = Event("stop", s.down[f[i]], kind[f[i]])
    OBVIOUS
  <2> HIDE DEF C
  <2>5. C[i] \in AnEvent /\ C[i].event = "stop" /\ C[i].index = s.down[f[i]]
             /\ C[i].block = kind[f[i]] /\ C[i].attempt = er
    BY <2>2, <2>3, <2>4, EventIs
  <2>6. kind[f[i]] = "thinking" => thinking
    BY <2>1 DEF Dropped
  <2> QED
    BY <2>1, <2>5, <2>6 DEF OfAttempt
<1>9. C \in Seq(AnEvent) /\ DOMAIN C = 1..n
  <2>1. C \in [1..n -> AnEvent]
    BY <1>8
  <2> QED
    BY <2>1, <1>7
<1> HIDE DEF C
<1>10. Follows(L, C, er, thinking)
  <2> SUFFICES ASSUME NEW m \in 1..n
               PROVE  /\ BegunAs(L, C[m].index, C[m].block)
                      /\ C[m].index \notin Stopped(L)
                      /\ \A j \in 1..m - 1 : C[j].index # C[m].index
    BY <1>8, <1>9 DEF Follows
  <2>1. BegunAs(L, C[m].index, C[m].block) /\ C[m].index \notin Stopped(L)
    BY <1>8 DEF Holds
  <2>2. ASSUME NEW j \in 1..m - 1, C[j].index = C[m].index PROVE FALSE
    <3>1. j \in 1..n /\ j # m
      BY <1>7
    <3>2. s.down[f[j]] = s.down[f[m]] /\ f[j] \in s.open /\ f[m] \in s.open
      BY <3>1, <2>2, <1>8
    <3>3. f[j] = f[m]
      BY <3>2 DEF Holds
    <3> QED
      BY <3>1, <3>3, <1>7
  <2> QED
    BY <2>1, <2>2
<1>11. Carried(L \o C, er, thinking)
  BY <1>9, <1>10, Joined
<1>12. L \in Seq(AnEvent)
  BY DEF Carried
<1>13. Begun(C) = {} /\ \A o \in s.open : s.down[o] \in Stopped(C)
  <2>1. Begun(C) = {}
    BY <1>8, <1>9 DEF Begun
  <2>2. ASSUME NEW o \in s.open PROVE s.down[o] \in Stopped(C)
    <3>1. PICK i \in 1..n : f[i] = o
      BY <1>7
    <3> QED
      BY <3>1, <1>8, <1>9 DEF Stopped
  <2> QED
    BY <2>1, <2>2
<1>14. /\ Begun(L \o C) = Begun(L) \cup Begun(C) /\ Stopped(L \o C) = Stopped(L) \cup Stopped(C)
       /\ HasEnd(L) => HasEnd(L \o C)
  BY <1>9, <1>12, JoinedSets
<1>15. DeltaCount(L \o C) >= DeltaCount(L)
  BY <1>9, <1>12, JoinedDeltas
<1>16. Begun(L) = 0..s.next - 1 /\ \A i \in Begun(L) : i \in Stopped(L) \/ \E v \in s.open : s.down[v] = i
  BY DEF Holds
<1>17. \A v \in Index : s.down[v] < s.next
  BY DEF Holds
<1>18. IsFiniteSet({})
  BY FS_EmptySet
<1>19. Holds(L \o C, t, kind)
  BY <1>5, <1>13, <1>14, <1>16, <1>17, <1>18 DEF Holds
<1> QED
  BY <1>3, <1>5, <1>6, <1>9, <1>11, <1>14, <1>15, <1>19 DEF c

LEMMA SegmentIs ==
    ASSUME NEW s \in PolicyState, NEW u \in Index
    PROVE  LET t == Segment(s, u)
           IN  /\ t \in PolicyState
               /\ t.next = s.next + 1 /\ t.open = s.open \cup {u}
               /\ t.suppressed = s.suppressed \ {u}
               /\ t.dropped = s.dropped /\ t.named = s.named
               /\ t.down[u] = s.next
               /\ \A v \in Index : v # u => t.down[v] = s.down[v]
<1> DEFINE t1 == [s EXCEPT !.next = @ + 1]
           t2 == [t1 EXCEPT !.down = [s.down EXCEPT ![u] = s.next]]
           t3 == [t2 EXCEPT !.open = @ \cup {u}]
           t4 == [t3 EXCEPT !.suppressed = @ \ {u}]
<1>1. s.next \in Nat /\ s.down \in [Index -> Int] /\ s.open \subseteq Index /\ s.suppressed \subseteq Index
  BY DEF PolicyState
<1>2. [s.down EXCEPT ![u] = s.next] \in [Index -> Int]
  BY <1>1
<1>3. /\ t1 \in PolicyState /\ t1.next = s.next + 1 /\ t1.down = s.down /\ t1.open = s.open
      /\ t1.suppressed = s.suppressed /\ t1.dropped = s.dropped /\ t1.named = s.named
  BY <1>1 DEF PolicyState
<1>4. Segment(s, u) = t4
  BY DEF Segment, PolicyState
<1> HIDE DEF t1
<1>5. /\ t2 \in PolicyState /\ t2.next = s.next + 1 /\ t2.down = [s.down EXCEPT ![u] = s.next]
      /\ t2.open = s.open
      /\ t2.suppressed = s.suppressed /\ t2.dropped = s.dropped /\ t2.named = s.named
  BY <1>2, <1>3 DEF PolicyState
<1> HIDE DEF t2
<1>6. /\ t3 \in PolicyState /\ t3.next = s.next + 1 /\ t3.down = [s.down EXCEPT ![u] = s.next]
      /\ t3.open = s.open \cup {u}
      /\ t3.suppressed = s.suppressed /\ t3.dropped = s.dropped /\ t3.named = s.named
  BY <1>5 DEF PolicyState
<1> HIDE DEF t3
<1>7. /\ t4 \in PolicyState /\ t4.next = s.next + 1 /\ t4.down = [s.down EXCEPT ![u] = s.next]
      /\ t4.open = s.open \cup {u}
      /\ t4.suppressed = s.suppressed \ {u} /\ t4.dropped = s.dropped /\ t4.named = s.named
  BY <1>6 DEF PolicyState
<1> HIDE DEF t4
<1> QED
  BY <1>1, <1>4, <1>7

\* A block that begins, or begins again, gets the next index.
LEMMA SegmentHolds ==
    ASSUME NEW a, NEW th, NEW L, Carried(L, a, th), NEW s, Holds(L, s, kind),
           NEW u \in Index, u \notin s.open,
           NEW e \in AnEvent, OfAttempt(e, a, th), e.event = "start",
           e.index = s.next, e.block = kind[u]
    PROVE  /\ Carried(L \o <<e>>, a, th)
           /\ Holds(L \o <<e>>, Segment(s, u), kind)
           /\ HasEnd(L) => HasEnd(L \o <<e>>)
           /\ DeltaCount(L \o <<e>>) >= DeltaCount(L)
<1> DEFINE t == Segment(s, u)
           C == <<e>>
           M == L \o C
<1>1. s \in PolicyState /\ s.next \in Nat /\ Begun(L) = 0..s.next - 1 /\ s.open \subseteq Index
  BY DEF Holds, PolicyState
<1>2. /\ t \in PolicyState
      /\ t.next = s.next + 1 /\ t.open = s.open \cup {u}
      /\ t.suppressed = s.suppressed \ {u}
      /\ t.down[u] = s.next
      /\ \A v \in Index : v # u => t.down[v] = s.down[v]
  BY <1>1, SegmentIs
<1> HIDE DEF t
<1>3. C \in Seq(AnEvent) /\ DOMAIN C = {1} /\ C[1] = e /\ Begun(C) = {s.next} /\ Stopped(C) = {}
  BY Single
<1>4. L \in Seq(AnEvent)
  BY DEF Carried
<1>5. Carried(M, a, th)
  BY <1>1, JoinedOne DEF NeedsOpen
<1>6. BegunAs(C, s.next, kind[u])
  BY <1>3 DEF BegunAs
<1> HIDE DEF C
<1>7. /\ Begun(M) = Begun(L) \cup Begun(C) /\ Stopped(M) = Stopped(L) \cup Stopped(C)
      /\ HasEnd(M) <=> HasEnd(L) \/ HasEnd(C)
      /\ \A i, b : BegunAs(M, i, b) <=> BegunAs(L, i, b) \/ BegunAs(C, i, b)
  BY <1>3, <1>4, JoinedSets
<1>8. DeltaCount(M) >= DeltaCount(L)
  BY <1>3, <1>4, JoinedDeltas
<1> HIDE DEF M
<1>9. Stopped(M) = Stopped(L) /\ Begun(M) = Begun(L) \cup {s.next}
  BY <1>3, <1>7
<1>10. s.next \notin Stopped(L)
  BY <1>1, StoppedBegun
<1>11. Holds(M, t, kind)
  <2>1. Begun(M) = 0..t.next - 1
    BY <1>1, <1>2, <1>9
  <2>2. \A v \in Index : t.down[v] < t.next
    <3>1. \A v \in Index : s.down[v] < s.next /\ s.down[v] \in Int
      BY <1>1 DEF Holds, PolicyState
    <3> QED
      BY <3>1, <1>1, <1>2
  <2>3. IsFiniteSet(t.open)
    BY <1>2, FS_AddElement DEF Holds
  <2>4. t.open \cap t.suppressed = {}
    BY <1>2 DEF Holds
  <2>5. ASSUME NEW v \in t.open
        PROVE  BegunAs(M, t.down[v], kind[v]) /\ t.down[v] \notin Stopped(M)
    <3>1. CASE v = u
      BY <3>1, <1>2, <1>6, <1>7, <1>9, <1>10
    <3>2. CASE v # u
      <4>1. v \in s.open /\ t.down[v] = s.down[v]
        BY <3>2, <1>1, <1>2
      <4> QED
        BY <4>1, <1>7, <1>9 DEF Holds
    <3> QED
      BY <3>1, <3>2
  <2>6. ASSUME NEW v \in t.open, NEW w \in t.open, t.down[v] = t.down[w] PROVE v = w
    <3>1. \A x \in s.open : x # u /\ t.down[x] = s.down[x] /\ s.down[x] < s.next /\ s.down[x] \in Int
      BY <1>1, <1>2 DEF Holds, PolicyState
    <3>2. CASE v \in s.open /\ w \in s.open
      BY <3>1, <3>2, <2>6 DEF Holds
    <3>3. CASE v = u \/ w = u
      BY <3>1, <3>3, <2>6, <1>1, <1>2
    <3> QED
      BY <3>2, <3>3, <1>2
  <2>7. ASSUME NEW i \in Begun(M) PROVE i \in Stopped(M) \/ \E v \in t.open : t.down[v] = i
    <3>1. CASE i = s.next
      BY <3>1, <1>2
    <3>2. CASE i \in Begun(L)
      <4>1. i \in Stopped(L) \/ \E v \in s.open : s.down[v] = i
        BY <3>2 DEF Holds
      <4>2. \A v \in s.open : v \in t.open /\ t.down[v] = s.down[v]
        BY <1>1, <1>2
      <4> QED
        BY <4>1, <4>2, <1>9
    <3> QED
      BY <3>1, <3>2, <1>9
  <2> QED
    BY <1>2, <2>1, <2>2, <2>3, <2>4, <2>5, <2>6, <2>7 DEF Holds
<1> QED
  BY <1>5, <1>7, <1>8, <1>11 DEF M, C, t

\* What is said of an open block changes nothing but the sequence.
LEMMA DeltaHolds ==
    ASSUME NEW a, NEW th, NEW L, Carried(L, a, th), NEW s, Holds(L, s, kind),
           NEW u \in s.open,
           NEW e \in AnEvent, OfAttempt(e, a, th), e.event = "delta",
           e.index = s.down[u], e.block = kind[u]
    PROVE  /\ Carried(L \o <<e>>, a, th)
           /\ Holds(L \o <<e>>, s, kind)
           /\ HasEnd(L) => HasEnd(L \o <<e>>)
           /\ DeltaCount(L \o <<e>>) >= DeltaCount(L) + 1
<1> DEFINE C == <<e>>
           M == L \o C
<1>1. C \in Seq(AnEvent) /\ DOMAIN C = {1} /\ C[1] = e /\ Begun(C) = {} /\ Stopped(C) = {}
  BY Single
<1>2. L \in Seq(AnEvent)
  BY DEF Carried
<1>3. Carried(M, a, th)
  <2>1. BegunAs(L, e.index, e.block) /\ e.index \notin Stopped(L)
    BY DEF Holds
  <2> QED
    BY <2>1, JoinedOne
<1> HIDE DEF C
<1>4. /\ Begun(M) = Begun(L) \cup Begun(C) /\ Stopped(M) = Stopped(L) \cup Stopped(C)
      /\ HasEnd(M) <=> HasEnd(L) \/ HasEnd(C)
      /\ \A i, b : BegunAs(M, i, b) <=> BegunAs(L, i, b) \/ BegunAs(C, i, b)
  BY <1>1, <1>2, JoinedSets
<1>5. DeltaCount(M) >= DeltaCount(L) + 1
  BY <1>1, <1>2, JoinedDeltas
<1> HIDE DEF M
<1>6. Stopped(M) = Stopped(L) /\ Begun(M) = Begun(L)
  BY <1>1, <1>4
<1>7. Holds(M, s, kind)
  BY <1>4, <1>6 DEF Holds
<1> QED
  BY <1>3, <1>4, <1>5, <1>7 DEF M, C

-----------------------------------------------------------------------------
(* What the policy makes of one event of upstream. *)

Passes(L, r, a, th) ==
    /\ r.out \in Seq(AnEvent)
    /\ Carried(L \o r.out, a, th)
    /\ Holds(L \o r.out, r.state, kind)
    /\ HasEnd(L) => HasEnd(L \o r.out)
    /\ DeltaCount(L \o r.out) >= DeltaCount(L)

LEMMA NothingPasses ==
    ASSUME NEW a, NEW th, NEW L, Carried(L, a, th), NEW s, Holds(L, s, kind)
    PROVE  Passes(L, Result(s, <<>>), a, th)
<1>1. L \in Seq(AnEvent)
  BY DEF Carried
<1> DEFINE none == <<>>
<1>2. none \in Seq(AnEvent) /\ L \o none = L
  BY <1>1, ConcatEmptySeq
<1>3. DeltaCount(L) \in Nat
  BY <1>1, <1>2, JoinedDeltas
<1>4. Result(s, <<>>).out = none /\ Result(s, <<>>).state = s
  BY DEF Result
<1> HIDE DEF none
<1>5. DeltaCount(L) >= DeltaCount(L)
  BY <1>3
<1> QED
  BY <1>2, <1>4, <1>5 DEF Passes

LEMMA StartPasses ==
    ASSUME early_retries \in Nat, kind \in [Index -> Kind], Index \subseteq Nat,
           NEW L, Carried(L, early_retries, thinking), NEW s, Holds(L, s, kind),
           \A o \in s.open : ~Dropped(o),
           NEW u \in Index, u \notin s.open
    PROVE  LET r == OnStart(s, u)
           IN  /\ Passes(L, r, early_retries, thinking)
               /\ r.state.open \subseteq s.open \cup {u}
               /\ u \in r.state.open => ~Dropped(u)
               /\ r.state.dropped = IF Dropped(u) THEN s.dropped \cup {u} ELSE s.dropped
<1> DEFINE r == OnStart(s, u)
<1>1. s \in PolicyState /\ s.open \subseteq Index
  BY DEF Holds, PolicyState
<1>2. CASE Dropped(u)
  <2> DEFINE t == [s EXCEPT !.dropped = @ \cup {u}]
  <2>1. r = Result(t, <<>>)
    BY <1>2 DEF OnStart
  <2>2. /\ t \in PolicyState /\ t.next = s.next /\ t.down = s.down /\ t.open = s.open
        /\ t.suppressed = s.suppressed /\ t.dropped = s.dropped \cup {u}
    BY <1>1 DEF PolicyState
  <2> HIDE DEF t
  <2>3. Holds(L, t, kind)
    BY <2>2 DEF Holds
  <2>4. Passes(L, r, early_retries, thinking)
    BY <2>1, <2>3, NothingPasses
  <2>5. r.state = t
    BY <2>1 DEF Result
  <2> QED
    BY <2>2, <2>4, <2>5, <1>2
<1>3. CASE ~Dropped(u)
  <2> DEFINE er == early_retries
             c == CloseOthers(s, u)
             t == Segment(c.state, u)
             n == [t EXCEPT !.named = @ \cup {u}]
             e == Event("start", c.state.next, kind[u])
             M == L \o c.out
             N == M \o <<e>>
  <2>1. r = Result(n, Append(c.out, e))
    BY <1>3 DEF OnStart
  <2>2. /\ c.out \in Seq(AnEvent) /\ Carried(M, er, thinking)
        /\ Holds(M, c.state, kind)
        /\ c.state.open = {} /\ c.state.dropped = s.dropped
        /\ HasEnd(L) => HasEnd(M)
        /\ DeltaCount(M) >= DeltaCount(L)
    BY OthersClosed
  <2> HIDE DEF c
  <2>3. c.state \in PolicyState /\ c.state.next \in Nat
    BY <2>2 DEF Holds, PolicyState
  <2>4. "start" \in EventType /\ kind[u] \in BlockOrReason /\ c.state.next \in Int
    BY <2>3 DEF EventType, BlockOrReason
  <2>5. /\ e \in AnEvent /\ e.event = "start" /\ e.index = c.state.next
        /\ e.block = kind[u] /\ e.attempt = er
    BY <2>4, EventIs
  <2>6. OfAttempt(e, er, thinking)
    <3>1. kind[u] = "thinking" => thinking
      BY <1>3 DEF Dropped
    <3> QED
      BY <2>5, <3>1 DEF OfAttempt
  <2> HIDE DEF e
  <2>7. /\ t \in PolicyState /\ t.next = c.state.next + 1 /\ t.open = c.state.open \cup {u}
        /\ t.dropped = c.state.dropped
    BY <2>3, SegmentIs
  <2> HIDE DEF M
  <2>8. /\ Carried(N, er, thinking) /\ Holds(N, t, kind)
        /\ HasEnd(M) => HasEnd(N)
        /\ DeltaCount(N) >= DeltaCount(M)
    BY <2>2, <2>5, <2>6, SegmentHolds
  <2> HIDE DEF t, N
  <2>9. /\ n \in PolicyState /\ n.next = t.next /\ n.down = t.down /\ n.open = t.open
        /\ n.suppressed = t.suppressed /\ n.dropped = t.dropped
    BY <2>7 DEF PolicyState
  <2> HIDE DEF n
  <2>10. Holds(N, n, kind)
    BY <2>8, <2>9 DEF Holds
  <2>11. L \in Seq(AnEvent) /\ <<e>> \in Seq(AnEvent)
    BY <2>5 DEF Carried
  <2>12. Append(c.out, e) = c.out \o <<e>>
    BY <2>2, <2>5, AppendIsConcat
  <2>13. L \o (c.out \o <<e>>) = N
    <3> DEFINE E == <<e>>
               O == c.out
    <3> HIDE DEF E, O
    <3>1. E \in Seq(AnEvent)
      BY <2>11 DEF E
    <3>2. L \in Seq(AnEvent) /\ O \in Seq(AnEvent)
      BY <2>2, <2>11 DEF O
    <3>3. (L \o O) \o E = L \o (O \o E)
      BY <3>1, <3>2, Regrouped
    <3> QED
      BY <3>3 DEF M, N, E, O
  <2>14. c.out \o <<e>> \in Seq(AnEvent)
    BY <2>2, <2>11, ConcatProperties
  <2>15. DeltaCount(L) \in Nat /\ DeltaCount(M) \in Nat /\ DeltaCount(N) \in Nat
    BY <2>11, <2>2, <2>8, JoinedDeltas, EmptySeq DEF Carried
  <2>16. r.state = n /\ r.out = c.out \o <<e>>
    BY <2>1, <2>12 DEF Result
  <2> HIDE DEF r
  <2>18. L \o r.out = N /\ r.out \in Seq(AnEvent)
    BY <2>13, <2>14, <2>16
  <2>19. DeltaCount(N) >= DeltaCount(L)
    BY <2>2, <2>8, <2>15
  <2>17. Passes(L, r, er, thinking)
    BY <2>2, <2>8, <2>10, <2>16, <2>18, <2>19 DEF Passes
  <2> QED
    BY <2>2, <2>7, <2>9, <2>16, <2>17, <1>3 DEF r
<1> QED
  BY <1>2, <1>3

LEMMA DeltaPasses ==
    ASSUME early_retries \in Nat, kind \in [Index -> Kind], Index \subseteq Nat,
           NEW L, Carried(L, early_retries, thinking), NEW s, Holds(L, s, kind),
           NEW u \in Index, u \notin s.dropped => ~Dropped(u), s.dropped \cap s.open = {},
           NEW json \in Json
    PROVE  LET r == OnDelta(s, u, json)
           IN  /\ Passes(L, r, early_retries, thinking)
               /\ u \notin s.dropped => DeltaCount(L \o r.out) >= DeltaCount(L) + 1
               /\ r.state.open \subseteq s.open \cup {u}
               /\ u \in r.state.open => ~Dropped(u)
               /\ r.state.dropped = s.dropped
<1> DEFINE er == early_retries
           r == OnDelta(s, u, json)
           e(t) == Event("delta", t.down[u], kind[u])
           delta(t) == [e(t) EXCEPT !.json = json]
           t == Segment(s, u)
           b == Event("start", s.next, kind[u])
           start == [b EXCEPT !.named = u \in s.named]
<1>1. s \in PolicyState /\ s.open \subseteq Index /\ s.next \in Nat
  BY DEF Holds, PolicyState
<1>2. kind[u] \in BlockOrReason /\ "start" \in EventType /\ "delta" \in EventType
  BY DEF EventType, BlockOrReason
<1>3. ASSUME NEW p \in PolicyState, ~Dropped(u)
      PROVE  /\ delta(p) \in AnEvent /\ delta(p).event = "delta" /\ delta(p).index = p.down[u]
             /\ delta(p).block = kind[u] /\ OfAttempt(delta(p), er, thinking)
  <2>1. p.down[u] \in Int
    BY DEF PolicyState
  <2>2. /\ e(p) \in AnEvent /\ e(p).event = "delta" /\ e(p).index = p.down[u]
        /\ e(p).block = kind[u] /\ e(p).attempt = er
    BY <2>1, <1>2, EventIs
  <2> HIDE DEF e
  <2>3. /\ delta(p) \in AnEvent /\ delta(p).event = "delta" /\ delta(p).index = p.down[u]
        /\ delta(p).block = kind[u] /\ delta(p).attempt = er
    BY <2>2 DEF AnEvent
  <2> HIDE DEF delta
  <2> QED
    BY <1>3, <2>3 DEF OfAttempt, Dropped
<1>4. L \in Seq(AnEvent)
  BY DEF Carried
<1>5. DeltaCount(L) \in Nat
  BY <1>4, EmptySeq, JoinedDeltas
<1>6. CASE u \in s.dropped
  <2>1. r = Result(s, <<>>)
    BY <1>6 DEF OnDelta
  <2>2. r.state = s
    BY <2>1 DEF Result
  <2>3. Passes(L, r, er, thinking)
    BY <2>1, NothingPasses
  <2> QED
    BY <1>6, <2>2, <2>3
<1>7. CASE u \notin s.dropped /\ u \in s.open
  <2> DEFINE d == delta(s)
             M == L \o <<d>>
  <2>1. r = Result(s, <<d>>)
    BY <1>7 DEF OnDelta
  <2>2. /\ d \in AnEvent /\ d.event = "delta" /\ d.index = s.down[u]
        /\ d.block = kind[u] /\ OfAttempt(d, er, thinking)
    BY <1>1, <1>3, <1>7
  <2> HIDE DEF delta, d
  <2>3. /\ Carried(M, er, thinking) /\ Holds(M, s, kind)
        /\ HasEnd(L) => HasEnd(M)
        /\ DeltaCount(M) >= DeltaCount(L) + 1
    BY <1>7, <2>2, DeltaHolds
  <2>4. r.state = s /\ r.out = <<d>> /\ <<d>> \in Seq(AnEvent)
    BY <2>1, <2>2 DEF Result
  <2>5. DeltaCount(M) \in Nat
    BY <1>4, <2>4, JoinedDeltas
  <2> HIDE DEF r, M
  <2>6. Passes(L, r, er, thinking)
    BY <2>3, <2>4, <2>5, <1>5 DEF Passes, M
  <2> QED
    BY <2>3, <2>4, <2>6, <1>7 DEF r, M
<1>8. CASE u \notin s.dropped /\ u \notin s.open
  <2> DEFINE d == delta(t)
             M == L \o <<start>>
             N == M \o <<d>>
  <2>1. r = Result(t, <<start, d>>)
    BY <1>8 DEF OnDelta
  <2>2. /\ t \in PolicyState /\ t.next = s.next + 1 /\ t.open = s.open \cup {u}
        /\ t.dropped = s.dropped
    BY <1>1, SegmentIs
  <2>3. /\ d \in AnEvent /\ d.event = "delta" /\ d.index = t.down[u]
        /\ d.block = kind[u] /\ OfAttempt(d, er, thinking)
    <3> HIDE DEF t
    <3> QED
      BY <2>2, <1>3, <1>8
  <2>4. b \in AnEvent /\ b.event = "start" /\ b.index = s.next /\ b.block = kind[u] /\ b.attempt = er
    BY <1>1, <1>2, EventIs
  <2> HIDE DEF b
  <2>5. /\ start \in AnEvent /\ start.event = "start" /\ start.index = s.next
        /\ start.block = kind[u] /\ start.attempt = er
    <3> DEFINE flag == u \in s.named
    <3>1. flag \in BOOLEAN
      OBVIOUS
    <3> HIDE DEF flag
    <3>2. LET f == [b EXCEPT !.named = flag]
          IN  f \in AnEvent /\ f.event = "start" /\ f.index = s.next
              /\ f.block = kind[u] /\ f.attempt = er
      BY <2>4, <3>1 DEF AnEvent
    <3> QED
      BY <3>2 DEF flag
  <2> HIDE DEF start
  <2>6. OfAttempt(start, er, thinking)
    BY <2>5, <1>8 DEF OfAttempt, Dropped
  <2>7. /\ Carried(M, er, thinking) /\ Holds(M, t, kind)
        /\ HasEnd(L) => HasEnd(M)
        /\ DeltaCount(M) >= DeltaCount(L)
    BY <2>5, <2>6, <1>8, SegmentHolds
  <2> HIDE DEF t, M, d, delta
  <2>8. /\ Carried(N, er, thinking) /\ Holds(N, t, kind)
        /\ HasEnd(M) => HasEnd(N)
        /\ DeltaCount(N) >= DeltaCount(M) + 1
    BY <2>2, <2>3, <2>7, DeltaHolds
  <2>9. <<start>> \in Seq(AnEvent) /\ <<d>> \in Seq(AnEvent) /\ <<start, d>> \in Seq(AnEvent)
        /\ <<start, d>> = <<start>> \o <<d>>
    BY <2>3, <2>5
  <2>10. L \o (<<start>> \o <<d>>) = N
    BY <2>9, <1>4, Regrouped DEF M, N
  <2>11. DeltaCount(M) \in Nat /\ DeltaCount(N) \in Nat
    BY <2>7, <2>8, EmptySeq, JoinedDeltas DEF Carried
  <2>12. r.state = t /\ r.out = <<start, d>>
    BY <2>1 DEF Result
  <2>13. L \o r.out = N /\ r.out \in Seq(AnEvent)
    BY <2>9, <2>10, <2>12
  <2> HIDE DEF r, N
  <2>16. DeltaCount(N) >= DeltaCount(L)
    BY <2>7, <2>8, <2>11, <1>5
  <2>14. Passes(L, r, er, thinking)
    BY <2>7, <2>8, <2>12, <2>13, <2>16 DEF Passes
  <2>15. DeltaCount(L \o r.out) >= DeltaCount(L) + 1
    BY <2>7, <2>8, <2>11, <2>13, <1>5
  <2> QED
    BY <2>2, <2>12, <2>14, <2>15, <1>8 DEF r
<1> QED
  BY <1>6, <1>7, <1>8

LEMMA StopPasses ==
    ASSUME early_retries \in Nat, kind \in [Index -> Kind], Index \subseteq Nat,
           NEW L, Carried(L, early_retries, thinking), NEW s, Holds(L, s, kind),
           NEW u \in Index, u \in s.open => ~Dropped(u), s.dropped \cap s.open = {}
    PROVE  LET r == OnStop(s, u)
           IN  /\ Passes(L, r, early_retries, thinking)
               /\ r.state.open = s.open \ {u}
               /\ r.state.dropped = s.dropped
<1> DEFINE er == early_retries
           r == OnStop(s, u)
<1>1. s \in PolicyState /\ s.open \subseteq Index /\ s.open \cap s.suppressed = {}
  BY DEF Holds, PolicyState
<1>2. CASE u \in s.dropped \/ (u \notin s.suppressed /\ u \notin s.open)
  <2>1. r = Result(s, <<>>)
    BY <1>2 DEF OnStop
  <2>2. r.state = s
    BY <2>1 DEF Result
  <2>3. Passes(L, r, er, thinking)
    BY <2>1, NothingPasses
  <2>4. u \notin s.open
    BY <1>2
  <2> QED
    BY <2>2, <2>3, <2>4
<1>3. CASE u \notin s.dropped /\ u \in s.suppressed
  <2> DEFINE t == [s EXCEPT !.suppressed = @ \ {u}]
  <2>1. r = Result(t, <<>>)
    BY <1>3 DEF OnStop
  <2>2. /\ t \in PolicyState /\ t.next = s.next /\ t.down = s.down /\ t.open = s.open
        /\ t.suppressed = s.suppressed \ {u} /\ t.dropped = s.dropped
    BY <1>1 DEF PolicyState
  <2> HIDE DEF t
  <2>3. Holds(L, t, kind)
    BY <2>2 DEF Holds
  <2>4. Passes(L, r, early_retries, thinking)
    BY <2>1, <2>3, NothingPasses
  <2>5. r.state = t
    BY <2>1 DEF Result
  <2> QED
    BY <2>2, <2>4, <2>5, <1>1, <1>3
<1>4. CASE u \notin s.dropped /\ u \notin s.suppressed /\ u \in s.open
  <2> DEFINE t == [s EXCEPT !.open = @ \ {u}]
             e == Event("stop", s.down[u], kind[u])
             C == <<e>>
             M == L \o C
  <2>1. r = Result(t, C)
    BY <1>4 DEF OnStop
  <2>2. /\ t \in PolicyState /\ t.next = s.next /\ t.down = s.down /\ t.open = s.open \ {u}
        /\ t.suppressed = s.suppressed /\ t.dropped = s.dropped
    BY <1>1 DEF PolicyState
  <2> HIDE DEF t
  <2>3. "stop" \in EventType /\ kind[u] \in BlockOrReason /\ s.down[u] \in Int
    BY <1>1 DEF EventType, BlockOrReason, PolicyState
  <2>4. /\ e \in AnEvent /\ e.event = "stop" /\ e.index = s.down[u]
        /\ e.block = kind[u] /\ e.attempt = er
    BY <2>3, EventIs
  <2> HIDE DEF e
  <2>5. OfAttempt(e, er, thinking)
    BY <2>4, <1>4 DEF OfAttempt, Dropped
  <2>6. BegunAs(L, e.index, e.block) /\ e.index \notin Stopped(L)
    BY <2>4, <1>4 DEF Holds
  <2>7. Carried(M, er, thinking)
    BY <2>4, <2>5, <2>6, JoinedOne
  <2>8. C \in Seq(AnEvent) /\ Begun(C) = {} /\ Stopped(C) = {s.down[u]}
    BY <2>4, Single
  <2>9. L \in Seq(AnEvent)
    BY DEF Carried
  <2> HIDE DEF C
  <2>10. /\ Begun(M) = Begun(L) \cup Begun(C) /\ Stopped(M) = Stopped(L) \cup Stopped(C)
         /\ HasEnd(M) <=> HasEnd(L) \/ HasEnd(C)
         /\ \A i, b : BegunAs(M, i, b) <=> BegunAs(L, i, b) \/ BegunAs(C, i, b)
    BY <2>8, <2>9, JoinedSets
  <2>11. DeltaCount(M) >= DeltaCount(L)
    BY <2>8, <2>9, JoinedDeltas
  <2> HIDE DEF M
  <2>12. Begun(M) = Begun(L) /\ Stopped(M) = Stopped(L) \cup {s.down[u]}
    BY <2>8, <2>10
  <2>13. Holds(M, t, kind)
    <3>1. IsFiniteSet(t.open)
      BY <2>2, FS_RemoveElement DEF Holds
    <3>2. \A v \in t.open : BegunAs(M, t.down[v], kind[v]) /\ t.down[v] \notin Stopped(M)
      BY <2>2, <2>10, <2>12, <1>4 DEF Holds
    <3>3. \A i \in Begun(M) : i \in Stopped(M) \/ \E v \in t.open : t.down[v] = i
      <4> SUFFICES ASSUME NEW i \in Begun(L)
                   PROVE  i \in Stopped(M) \/ \E v \in t.open : t.down[v] = i
        BY <2>12
      <4>1. i \in Stopped(L) \/ \E v \in s.open : s.down[v] = i
        BY DEF Holds
      <4> QED
        BY <4>1, <2>2, <2>12
    <3> QED
      BY <2>2, <2>12, <3>1, <3>2, <3>3 DEF Holds
  <2>14. r.state = t /\ r.out = C
    BY <2>1 DEF Result
  <2> HIDE DEF r
  <2>15. Passes(L, r, er, thinking)
    BY <2>7, <2>8, <2>10, <2>11, <2>13, <2>14 DEF Passes, M
  <2> QED
    BY <2>2, <2>14, <2>15 DEF r
<1> QED
  BY <1>2, <1>3, <1>4

-----------------------------------------------------------------------------
(* The invariant. *)

\* The blocks the state calls open are open upstream and not to be dropped, and
\* it drops those that are.
Tracks(s, k, up, th) ==
    /\ \A o \in s.open : up[o] = "open" /\ ~(k[o] = "thinking" /\ ~th)
    /\ s.dropped = {u \in Index : k[u] = "thinking" /\ ~th /\ up[u] # "fresh"}

NInv ==
    /\ TypeOK
    /\ state \in PolicyState
    /\ deltas \in Nat
    /\ sent \in Seq(AnEvent) /\ held \in Seq(AnEvent)
    /\ ~committed => sent = <<>>
    /\ Carried(Emitted, early_retries, thinking)
    /\ DeltaCount(Emitted) >= deltas
    /\ phase # "ended" =>
          /\ Holds(Emitted, state, kind)
          /\ Tracks(state, kind, upstream, thinking)
          /\ finished # "no" => state.open = {}
          /\ finished = "stop" => HasEnd(Emitted)
    /\ phase = "ended" => held = <<>> /\ Whole(sent, early_retries, thinking)

LEMMA EmptyCarried ==
    ASSUME NEW a, NEW th
    PROVE  /\ Carried(<<>>, a, th) /\ DeltaCount(<<>>) = 0
           /\ \A k : Index \subseteq Nat => Holds(<<>>, NewState, k)
<1> DEFINE none == <<>>
<1>1. none \in Seq(AnEvent) /\ DOMAIN none = {}
  BY EmptySeq, LenProperties
<1> HIDE DEF none
<1>2. Carried(none, a, th)
  BY <1>1 DEF Carried
<1>3. Begun(none) = {} /\ DeltaAt(none) = {}
  BY <1>1 DEF Begun, DeltaAt
<1>4. DeltaCount(none) = 0
  BY <1>3, FS_EmptySet DEF DeltaCount
<1>5. NewState \in PolicyState
  BY DEF NewState, PolicyState, None
<1>6. /\ NewState.next = 0 /\ NewState.open = {} /\ NewState.suppressed = {}
      /\ \A u \in Index : NewState.down[u] = -1
  BY DEF NewState, None
<1>7. ASSUME NEW k PROVE Holds(none, NewState, k)
  BY <1>3, <1>5, <1>6, FS_EmptySet DEF Holds
<1> QED
  BY <1>2, <1>4, <1>7 DEF none

\* What TypeOK says of the state follows from what it holds.
LEMMA HoldsTypes ==
    ASSUME NEW L, NEW s, NEW k, Holds(L, s, k)
    PROVE  /\ s.next \in Nat
           /\ \A u \in Index : s.down[u] < s.next
           /\ s.open \subseteq {u \in Index : s.down[u] # None} \ s.suppressed
<1>1. s.next \in Nat /\ s.open \subseteq Index /\ Begun(L) = 0..s.next - 1 /\ s.open \cap s.suppressed = {}
  BY DEF Holds, PolicyState
<1>2. ASSUME NEW u \in s.open PROVE s.down[u] # None
  <2>1. BegunAs(L, s.down[u], k[u])
    BY DEF Holds
  <2>2. s.down[u] \in Begun(L)
    BY <2>1 DEF BegunAs, Begun
  <2> QED
    BY <2>2, <1>1 DEF None
<1> QED
  BY <1>1, <1>2 DEF Holds

LEMMA NInitially == Init => NInv
<1> SUFFICES ASSUME Init PROVE NInv
  OBVIOUS
<1>1. Index \subseteq Nat /\ EventMax \in Nat /\ MaxRetries \in Nat
  BY NativeAssumption
<1> DEFINE none == <<>>
<1>2. sent = none /\ held = none /\ none \in Seq(AnEvent)
  BY EmptySeq DEF Init
<1>3. Emitted = none
  <2>1. none \o none = none
    BY <1>2, ConcatEmptySeq
  <2> QED
    BY <1>2, <2>1 DEF Emitted
<1>4. Carried(none, early_retries, thinking) /\ DeltaCount(none) = 0 /\ Holds(none, NewState, kind)
  BY <1>1, EmptyCarried
<1> HIDE DEF none
<1>5. state = NewState /\ deltas = 0 /\ early_retries = 0 /\ phase = "opening" /\ finished = "no"
      /\ ~committed /\ committed \in BOOLEAN /\ thinking \in BOOLEAN /\ events = 0
      /\ kind \in [Index -> Kind] /\ upstream = [u \in Index |-> "fresh"]
  BY DEF Init
<1>6. /\ state.next \in Nat
      /\ \A u \in Index : state.down[u] < state.next
      /\ state.open \subseteq {u \in Index : state.down[u] # None} \ state.suppressed
  BY <1>4, <1>5, HoldsTypes
<1>7. TypeOK
  BY <1>1, <1>2, <1>5, <1>6 DEF TypeOK
<1>8. state \in PolicyState
  BY <1>4, <1>5 DEF Holds
<1>9. Tracks(state, kind, upstream, thinking)
  BY <1>5 DEF Tracks, NewState
<1> QED
  BY <1>2, <1>3, <1>4, <1>5, <1>7, <1>8, <1>9 DEF NInv, none

\* What goes out joins what was emitted, whether it is held back or not.
LEMMA PushEmits ==
    ASSUME NInv, NEW out \in Seq(AnEvent), Push(out)
    PROVE  /\ Emitted' = Emitted \o out
           /\ committed' \in BOOLEAN
           /\ committed' => held' = <<>>
           /\ ~committed' => sent' = <<>>
           /\ sent' \in Seq(AnEvent) /\ held' \in Seq(AnEvent)
<1>1. /\ committed \in BOOLEAN /\ (~committed => sent = <<>>) /\ Emitted = sent \o held
      /\ sent \in Seq(AnEvent) /\ held \in Seq(AnEvent)
  BY DEF NInv, TypeOK, Emitted
<1>2. CASE ~committed /\ held' = held \o out /\ UNCHANGED <<committed, sent>>
  <2>1. sent' \o held' = sent \o (held \o out)
    BY <1>2
  <2>2. sent \o (held \o out) = (sent \o held) \o out
    BY <1>1, Regrouped
  <2>3. held' \in Seq(AnEvent)
    BY <1>1, <1>2, ConcatProperties
  <2> QED
    BY <1>1, <1>2, <2>1, <2>2, <2>3 DEF Emitted
<1>3. CASE sent' = Emitted \o out /\ held' = <<>> /\ committed' = TRUE
  <2> DEFINE none == <<>>
             M == Emitted \o out
  <2>1. M \in Seq(AnEvent)
    BY <1>1, ConcatProperties
  <2> HIDE DEF M
  <2>2. M \o none = M
    BY <2>1, ConcatEmptySeq
  <2> QED
    BY <1>3, <2>1, <2>2, EmptySeq DEF Emitted, M
<1> QED
  BY <1>2, <1>3 DEF Push

\* However a message ends, its end is whole.
LEMMA EndsWhole ==
    ASSUME NInv, phase' = "ended", held' = <<>>, committed',
           committed' \in BOOLEAN,
           Whole(sent', early_retries, thinking), DeltaCount(sent') >= DeltaCount(Emitted),
           UNCHANGED <<kind, upstream, finished, state, early_retries, thinking, events, deltas>>
    PROVE  NInv'
<1> DEFINE none == <<>>
<1>1. sent' \in Seq(AnEvent) /\ Carried(sent', early_retries, thinking)
  BY DEF Whole, Carried
<1>2. Emitted' = sent'
  <2>1. sent' \o none = sent'
    BY <1>1, ConcatEmptySeq
  <2> QED
    BY <2>1 DEF Emitted
<1>3. none \in Seq(AnEvent)
  BY EmptySeq
<1>4. DeltaCount(sent') \in Nat /\ DeltaCount(Emitted) \in Nat
  BY <1>1, <1>3, JoinedDeltas DEF NInv, Carried
<1>5. DeltaCount(Emitted') >= deltas'
  BY <1>2, <1>4 DEF NInv
<1>6. TypeOK'
  BY DEF NInv, TypeOK
<1>7. Carried(Emitted', early_retries', thinking') /\ Whole(sent', early_retries', thinking')
  BY <1>1, <1>2
<1>8. state' \in PolicyState /\ deltas' \in Nat /\ held' \in Seq(AnEvent)
  BY <1>3 DEF NInv
<1> QED
  BY <1>1, <1>5, <1>6, <1>7, <1>8 DEF NInv

LEMMA ErrorTailKeeps ==
    ASSUME NInv, phase # "ended", ErrorTail,
           UNCHANGED <<kind, upstream, finished, state, early_retries, thinking, events, deltas>>
    PROVE  NInv'
<1>1. /\ Carried(Emitted, early_retries, thinking) /\ Holds(Emitted, state, kind)
      /\ early_retries \in Nat
  BY DEF NInv, TypeOK
<1>2. state.next \in Nat /\ Begun(Emitted) = 0..state.next - 1
  BY <1>1 DEF Holds, PolicyState
<1>3. /\ phase' = "ended" /\ held' = <<>> /\ committed'
      /\ Whole(sent', early_retries, thinking)
      /\ DeltaCount(sent') >= DeltaCount(Emitted)
  BY <1>1, <1>2, ErrorEnds
<1>4. committed' \in BOOLEAN
  BY DEF ErrorTail, EndWith
<1> QED
  BY <1>3, <1>4, EndsWhole

LEMMA SuccessTailKeeps ==
    ASSUME NInv, NEW out, Carried(out, early_retries, thinking),
           DeltaCount(out) >= DeltaCount(Emitted),
           HasEnd(Emitted) => HasEnd(out), phase # "ended",
           NEW r \in {"tool_use", "end_turn"}, SuccessTail(out, r),
           UNCHANGED <<kind, upstream, finished, state, early_retries, thinking, events, deltas>>
    PROVE  NInv'
<1>1. early_retries \in Nat /\ (finished = "stop" => HasEnd(out))
  BY DEF NInv, TypeOK
<1>2. r \in BlockOrReason /\ r # "thinking"
  BY DEF BlockOrReason, Kind
<1>3. /\ phase' = "ended" /\ held' = <<>> /\ committed'
      /\ Whole(sent', early_retries, thinking)
      /\ DeltaCount(sent') >= DeltaCount(out)
  BY <1>1, <1>2, SuccessEnds
<1>4. committed' \in BOOLEAN
  BY DEF SuccessTail, EndWith
<1>5. out \in Seq(AnEvent) /\ sent' \in Seq(AnEvent) /\ Emitted \in Seq(AnEvent)
  BY <1>3 DEF NInv, Carried, Whole
<1>6. DeltaCount(out) \in Nat /\ DeltaCount(sent') \in Nat /\ DeltaCount(Emitted) \in Nat
  BY <1>5, JoinedDeltas, EmptySeq
<1>7. DeltaCount(sent') >= DeltaCount(Emitted)
  BY <1>3, <1>6
<1> QED
  BY <1>3, <1>4, <1>7, EndsWhole

\* One event of upstream, whatever the policy makes of it.
LEMMA EventKeeps ==
    ASSUME NInv, Receive, NEW r, Pass(r), Passes(Emitted, r, early_retries, thinking),
           upstream' \in [Index -> {"fresh", "open", "stopped"}],
           Tracks(r.state, kind, upstream', thinking),
           deltas' \in Nat, DeltaCount(Emitted \o r.out) >= deltas'
    PROVE  NInv'
<1> DEFINE out == r.out
<1>1. /\ phase = "reading" /\ phase' = phase /\ finished = "no" /\ finished' = finished /\ kind' = kind
      /\ early_retries' = early_retries /\ thinking' = thinking
      /\ events < EventMax /\ events' = events + 1
      /\ state' = r.state /\ Push(out)
  BY DEF Receive, Pass
<1>2. /\ out \in Seq(AnEvent)
      /\ Carried(Emitted \o out, early_retries, thinking)
      /\ Holds(Emitted \o out, r.state, kind)
  BY DEF Passes
<1>3. /\ Emitted' = Emitted \o out
      /\ committed' \in BOOLEAN
      /\ committed' => held' = <<>>
      /\ ~committed' => sent' = <<>>
      /\ sent' \in Seq(AnEvent) /\ held' \in Seq(AnEvent)
  BY <1>1, <1>2, PushEmits
<1>4. events' \in 0..EventMax
  BY <1>1, NativeAssumption DEF NInv, TypeOK
<1>5. /\ state'.next \in Nat
      /\ \A u \in Index : state'.down[u] < state'.next
      /\ state'.open \subseteq {u \in Index : state'.down[u] # None} \ state'.suppressed
  BY <1>1, <1>2, HoldsTypes
<1>6. TypeOK'
  BY <1>1, <1>3, <1>4, <1>5 DEF NInv, TypeOK
<1>7. state' \in PolicyState
  BY <1>1, <1>2 DEF Holds
<1>8. /\ Carried(Emitted', early_retries', thinking')
      /\ Holds(Emitted', state', kind') /\ Tracks(state', kind', upstream', thinking')
      /\ DeltaCount(Emitted') >= deltas'
  BY <1>1, <1>2, <1>3
<1> HIDE DEF out
<1> QED
  BY <1>1, <1>3, <1>6, <1>7, <1>8 DEF NInv

LEMMA TracksKnows ==
    ASSUME NInv, phase # "ended"
    PROVE  /\ early_retries \in Nat /\ kind \in [Index -> Kind] /\ Index \subseteq Nat
           /\ upstream \in [Index -> {"fresh", "open", "stopped"}]
           /\ Carried(Emitted, early_retries, thinking) /\ Holds(Emitted, state, kind)
           /\ Emitted \in Seq(AnEvent) /\ DeltaCount(Emitted) \in Nat
           /\ state.open \subseteq Index
           /\ \A o \in state.open : upstream[o] = "open" /\ ~Dropped(o)
           /\ state.dropped = {u \in Index : Dropped(u) /\ upstream[u] # "fresh"}
           /\ state.dropped \cap state.open = {}
<1>1. /\ early_retries \in Nat /\ kind \in [Index -> Kind] /\ Index \subseteq Nat
      /\ upstream \in [Index -> {"fresh", "open", "stopped"}]
      /\ Carried(Emitted, early_retries, thinking) /\ Holds(Emitted, state, kind)
  BY NativeAssumption DEF NInv, TypeOK
<1>2. Emitted \in Seq(AnEvent) /\ state.open \subseteq Index
  BY <1>1 DEF Carried, Holds, PolicyState
<1>3. DeltaCount(Emitted) \in Nat
  BY <1>2, EmptySeq, JoinedDeltas
<1>4. /\ \A o \in state.open : upstream[o] = "open" /\ ~Dropped(o)
      /\ state.dropped = {u \in Index : Dropped(u) /\ upstream[u] # "fresh"}
  BY DEF NInv, Tracks, Dropped
<1> QED
  BY <1>1, <1>2, <1>3, <1>4

LEMMA StartKeeps ==
    ASSUME NInv, NEW u \in Index, BlockStart(u)
    PROVE  NInv'
<1> DEFINE r == OnStart(state, u)
<1>1. /\ Receive /\ upstream[u] = "fresh" /\ upstream' = [upstream EXCEPT ![u] = "open"]
      /\ Pass(r) /\ deltas' = deltas /\ phase # "ended"
  BY DEF BlockStart, Receive
<1>2. /\ early_retries \in Nat /\ kind \in [Index -> Kind] /\ Index \subseteq Nat
      /\ upstream \in [Index -> {"fresh", "open", "stopped"}]
      /\ Carried(Emitted, early_retries, thinking) /\ Holds(Emitted, state, kind)
      /\ Emitted \in Seq(AnEvent) /\ DeltaCount(Emitted) \in Nat
      /\ state.open \subseteq Index
      /\ \A o \in state.open : upstream[o] = "open" /\ ~Dropped(o)
      /\ state.dropped = {v \in Index : Dropped(v) /\ upstream[v] # "fresh"}
  BY <1>1, TracksKnows
<1>3. u \notin state.open
  BY <1>1, <1>2
<1>4. /\ Passes(Emitted, r, early_retries, thinking)
      /\ r.state.open \subseteq state.open \cup {u}
      /\ u \in r.state.open => ~Dropped(u)
      /\ r.state.dropped = IF Dropped(u) THEN state.dropped \cup {u} ELSE state.dropped
  BY <1>2, <1>3, StartPasses
<1> HIDE DEF r
<1>5. upstream' \in [Index -> {"fresh", "open", "stopped"}]
      /\ upstream'[u] = "open" /\ \A v \in Index : v # u => upstream'[v] = upstream[v]
  BY <1>1, <1>2
<1>6. Tracks(r.state, kind, upstream', thinking)
  <2>1. \A o \in r.state.open : upstream'[o] = "open" /\ ~Dropped(o)
    BY <1>2, <1>4, <1>5
  <2>2. r.state.dropped = {v \in Index : Dropped(v) /\ upstream'[v] # "fresh"}
    BY <1>1, <1>2, <1>4, <1>5
  <2> QED
    BY <2>1, <2>2 DEF Tracks, Dropped
<1>7. DeltaCount(Emitted \o r.out) \in Nat /\ DeltaCount(Emitted \o r.out) >= DeltaCount(Emitted)
  BY <1>2, <1>4, JoinedDeltas DEF Passes
<1>8. deltas' \in Nat /\ DeltaCount(Emitted \o r.out) >= deltas'
  BY <1>1, <1>2, <1>7 DEF NInv
<1> QED
  BY <1>1, <1>4, <1>5, <1>6, <1>8, EventKeeps

LEMMA DeltaKeeps ==
    ASSUME NInv, NEW u \in Index, BlockDelta(u)
    PROVE  NInv'
<1> DEFINE jsons == IF kind[u] = "tool_use" THEN Json \ {"none"} ELSE {"none"}
<1>a. \E json \in jsons : Pass(OnDelta(state, u, json))
  BY DEF BlockDelta
<1>b. jsons \subseteq Json
  BY DEF Json
<1> HIDE DEF jsons
<1>1. PICK json \in Json : Pass(OnDelta(state, u, json))
  BY <1>a, <1>b
<1> DEFINE r == OnDelta(state, u, json)
<1>2. /\ Receive /\ (upstream[u] = "open" \/ (upstream[u] = "fresh" /\ kind[u] # "thinking"))
      /\ upstream' = [upstream EXCEPT ![u] = "open"]
      /\ Pass(r) /\ phase # "ended"
      /\ deltas' = IF Dropped(u) THEN deltas ELSE deltas + 1
  BY <1>1 DEF BlockDelta, Receive
<1>3. /\ early_retries \in Nat /\ kind \in [Index -> Kind] /\ Index \subseteq Nat
      /\ upstream \in [Index -> {"fresh", "open", "stopped"}]
      /\ Carried(Emitted, early_retries, thinking) /\ Holds(Emitted, state, kind)
      /\ Emitted \in Seq(AnEvent) /\ DeltaCount(Emitted) \in Nat
      /\ state.open \subseteq Index
      /\ \A o \in state.open : upstream[o] = "open" /\ ~Dropped(o)
      /\ state.dropped = {v \in Index : Dropped(v) /\ upstream[v] # "fresh"}
      /\ state.dropped \cap state.open = {}
  BY <1>2, TracksKnows
<1>4. u \notin state.dropped <=> ~Dropped(u)
  BY <1>2, <1>3 DEF Dropped
<1>5. /\ Passes(Emitted, r, early_retries, thinking)
      /\ u \notin state.dropped => DeltaCount(Emitted \o r.out) >= DeltaCount(Emitted) + 1
      /\ r.state.open \subseteq state.open \cup {u}
      /\ u \in r.state.open => ~Dropped(u)
      /\ r.state.dropped = state.dropped
  BY <1>3, <1>4, DeltaPasses
<1> HIDE DEF r
<1>6. upstream' \in [Index -> {"fresh", "open", "stopped"}]
      /\ upstream'[u] = "open" /\ \A v \in Index : v # u => upstream'[v] = upstream[v]
  BY <1>2, <1>3
<1>7. Tracks(r.state, kind, upstream', thinking)
  <2>1. \A o \in r.state.open : upstream'[o] = "open" /\ ~Dropped(o)
    BY <1>3, <1>5, <1>6
  <2>2. r.state.dropped = {v \in Index : Dropped(v) /\ upstream'[v] # "fresh"}
    BY <1>3, <1>4, <1>5, <1>6
  <2> QED
    BY <2>1, <2>2 DEF Tracks, Dropped
<1>8. DeltaCount(Emitted \o r.out) \in Nat /\ DeltaCount(Emitted \o r.out) >= DeltaCount(Emitted)
  BY <1>3, <1>5, JoinedDeltas DEF Passes
<1>9. deltas' \in Nat /\ DeltaCount(Emitted \o r.out) >= deltas'
  <2>1. deltas \in Nat /\ DeltaCount(Emitted) >= deltas
    BY DEF NInv
  <2>2. CASE Dropped(u)
    BY <2>1, <2>2, <1>2, <1>3, <1>8
  <2>3. CASE ~Dropped(u)
    BY <2>1, <2>3, <1>2, <1>3, <1>4, <1>5, <1>8
  <2> QED
    BY <2>2, <2>3
<1> QED
  BY <1>2, <1>5, <1>6, <1>7, <1>9, EventKeeps

LEMMA StopKeeps ==
    ASSUME NInv, NEW u \in Index, BlockStop(u)
    PROVE  NInv'
<1> DEFINE r == OnStop(state, u)
<1>1. /\ Receive /\ upstream[u] # "fresh" /\ upstream' = [upstream EXCEPT ![u] = "stopped"]
      /\ Pass(r) /\ deltas' = deltas /\ phase # "ended"
  BY DEF BlockStop, Receive
<1>2. /\ early_retries \in Nat /\ kind \in [Index -> Kind] /\ Index \subseteq Nat
      /\ upstream \in [Index -> {"fresh", "open", "stopped"}]
      /\ Carried(Emitted, early_retries, thinking) /\ Holds(Emitted, state, kind)
      /\ Emitted \in Seq(AnEvent) /\ DeltaCount(Emitted) \in Nat
      /\ state.open \subseteq Index
      /\ \A o \in state.open : upstream[o] = "open" /\ ~Dropped(o)
      /\ state.dropped = {v \in Index : Dropped(v) /\ upstream[v] # "fresh"}
      /\ state.dropped \cap state.open = {}
  BY <1>1, TracksKnows
<1>3. /\ Passes(Emitted, r, early_retries, thinking)
      /\ r.state.open = state.open \ {u}
      /\ r.state.dropped = state.dropped
  BY <1>2, StopPasses
<1> HIDE DEF r
<1>4. upstream' \in [Index -> {"fresh", "open", "stopped"}]
      /\ upstream'[u] = "stopped" /\ \A v \in Index : v # u => upstream'[v] = upstream[v]
  BY <1>1, <1>2
<1>5. Tracks(r.state, kind, upstream', thinking)
  <2>1. \A o \in r.state.open : upstream'[o] = "open" /\ ~Dropped(o)
    BY <1>2, <1>3, <1>4
  <2>2. r.state.dropped = {v \in Index : Dropped(v) /\ upstream'[v] # "fresh"}
    BY <1>1, <1>2, <1>3, <1>4
  <2> QED
    BY <2>1, <2>2 DEF Tracks, Dropped
<1>6. DeltaCount(Emitted \o r.out) \in Nat /\ DeltaCount(Emitted \o r.out) >= DeltaCount(Emitted)
  BY <1>2, <1>3, JoinedDeltas DEF Passes
<1>7. deltas' \in Nat /\ DeltaCount(Emitted \o r.out) >= deltas'
  BY <1>1, <1>2, <1>6 DEF NInv
<1> QED
  BY <1>1, <1>3, <1>4, <1>5, <1>7, EventKeeps

LEMMA MessageKeeps ==
    ASSUME NInv, MessageEvent
    PROVE  NInv'
<1>1. /\ phase = "reading" /\ finished # "stop" /\ phase' = phase /\ phase # "ended"
      /\ \A v \in Index : upstream[v] # "open"
      /\ UNCHANGED <<kind, upstream, state, early_retries, thinking, events, deltas>>
  BY DEF MessageEvent
<1>2. /\ early_retries \in Nat
      /\ Carried(Emitted, early_retries, thinking) /\ Holds(Emitted, state, kind)
      /\ Emitted \in Seq(AnEvent) /\ DeltaCount(Emitted) \in Nat
      /\ state.open \subseteq Index
      /\ \A o \in state.open : upstream[o] = "open"
  BY <1>1, TracksKnows
<1>3. state.open = {}
  BY <1>1, <1>2
<1>4. ASSUME NEW t \in {"message_delta", "message_stop"}, NEW b \in {"finished", "none"},
             Push(<<Event(t, None, b)>>), finished' \in {"reason", "stop"},
             finished' = "stop" => t = "message_stop"
      PROVE  NInv'
  <2> DEFINE e == Event(t, None, b)
             C == <<e>>
             M == Emitted \o C
  <2>1. t \in EventType /\ None \in Int /\ b \in BlockOrReason /\ b # "thinking"
    BY DEF EventType, None, BlockOrReason
  <2>2. /\ e \in AnEvent /\ e.event = t /\ e.block = b /\ e.attempt = early_retries
    BY <1>2, <2>1, EventIs
  <2> HIDE DEF e
  <2>3. OfAttempt(e, early_retries, thinking)
    BY <2>1, <2>2 DEF OfAttempt
  <2>4. C \in Seq(AnEvent) /\ Begun(C) = {} /\ Stopped(C) = {}
    BY <2>2, Single
  <2>5. /\ Carried(M, early_retries, thinking)
        /\ Begun(M) = Begun(Emitted) /\ Stopped(M) = Stopped(Emitted)
        /\ HasEnd(Emitted) \/ e.event = "message_stop" => HasEnd(M)
        /\ DeltaCount(M) >= DeltaCount(Emitted)
    BY <1>2, <2>2, <2>3, JoinedEnd
  <2> HIDE DEF C
  <2>6. \A i, d : BegunAs(M, i, d) <=> BegunAs(Emitted, i, d) \/ BegunAs(C, i, d)
    BY <1>2, <2>4, JoinedSets
  <2>7. DeltaCount(M) \in Nat
    BY <1>2, <2>4, JoinedDeltas
  <2>8. /\ Emitted' = M /\ committed' \in BOOLEAN
        /\ committed' => held' = <<>>
        /\ ~committed' => sent' = <<>>
        /\ sent' \in Seq(AnEvent) /\ held' \in Seq(AnEvent)
    BY <1>4, <2>4, PushEmits DEF C, e
  <2> HIDE DEF M
  <2>9. Holds(M, state, kind)
    BY <1>2, <2>5, <2>6 DEF Holds
  <2>10. DeltaCount(M) >= deltas
    BY <1>2, <2>5, <2>7 DEF NInv
  <2>11. TypeOK'
    <3>1. committed' \in BOOLEAN /\ (committed' => held' = <<>>)
      BY <2>8
    <3>2. /\ phase' = phase /\ kind' = kind /\ upstream' = upstream /\ state' = state
          /\ early_retries' = early_retries /\ thinking' = thinking /\ events' = events
          /\ finished' \in {"no", "reason", "stop"} /\ TypeOK
      BY <1>1, <1>4 DEF NInv
    <3> QED
      BY ONLY <3>1, <3>2 DEF TypeOK
  <2>12. finished' = "stop" => HasEnd(M)
    BY <1>4, <2>2, <2>5
  <2>13. Tracks(state, kind, upstream, thinking)
    BY <1>1 DEF NInv
  <2>14. /\ Carried(Emitted', early_retries', thinking') /\ Holds(Emitted', state', kind')
         /\ Tracks(state', kind', upstream', thinking')
    BY <1>1, <2>5, <2>8, <2>9, <2>13
  <2>15. DeltaCount(Emitted') >= deltas' /\ (finished' = "stop" => HasEnd(Emitted'))
    BY <1>1, <2>8, <2>10, <2>12
  <2> QED
    BY <1>1, <1>3, <2>8, <2>11, <2>14, <2>15 DEF NInv
<1>5. CASE finished' = "reason" /\ Push(<<Event("message_delta", None, "finished")>>)
  BY <1>4, <1>5
<1>6. CASE finished' = "stop" /\ Push(<<Event("message_stop", None, "none")>>)
  BY <1>4, <1>6
<1> QED
  BY <1>5, <1>6 DEF MessageEvent

\* After message_stop nothing is open and nothing more is sent.
LEMMA CompleteKeeps ==
    ASSUME NInv, Complete
    PROVE  NInv'
<1>1. /\ phase # "ended" /\ finished = "stop"
      /\ phase' = "ended" /\ sent' = Emitted /\ held' = <<>> /\ committed' = TRUE
      /\ UNCHANGED <<kind, upstream, finished, state, early_retries, thinking, events, deltas>>
  BY DEF Complete, EndWith
<1>2. /\ Carried(Emitted, early_retries, thinking) /\ Holds(Emitted, state, kind)
      /\ state.open = {} /\ HasEnd(Emitted)
  BY <1>1 DEF NInv
<1>3. Begun(Emitted) \subseteq Stopped(Emitted)
  BY <1>2 DEF Holds
<1>4. DeltaCount(Emitted) \in Nat
  BY <1>1, TracksKnows
<1>5. Whole(sent', early_retries, thinking) /\ DeltaCount(sent') >= DeltaCount(Emitted)
  BY <1>1, <1>2, <1>3, <1>4 DEF Whole
<1> QED
  BY <1>1, <1>5, EndsWhole

\* A retry the client does not notice: it has nothing of the attempt that broke.
LEMMA RetryKeeps ==
    ASSUME NInv, phase = "reading", MayRetry, Retried,
           UNCHANGED <<committed, sent, thinking, events>>
    PROVE  NInv'
<1>1. /\ ~committed /\ early_retries < MaxRetries
      /\ early_retries' = early_retries + 1 /\ held' = <<>> /\ phase' = "opening"
      /\ kind' \in [Index -> Kind] /\ upstream' = [u \in Index |-> "fresh"]
      /\ finished' = "no" /\ state' = NewState /\ deltas' = 0
  BY DEF MayRetry, Retried, NewAnswer
<1>2. /\ sent = <<>> /\ early_retries \in 0..MaxRetries /\ committed \in BOOLEAN
      /\ thinking \in BOOLEAN /\ events \in 0..EventMax
      /\ Index \subseteq Nat /\ MaxRetries \in Nat
  BY <1>1, NativeAssumption DEF NInv, TypeOK
<1> DEFINE none == <<>>
<1>3. none \in Seq(AnEvent)
  BY EmptySeq
<1>4. Emitted' = none
  <2>1. none \o none = none
    BY <1>3, ConcatEmptySeq
  <2> QED
    BY <1>1, <1>2, <2>1 DEF Emitted
<1>5. early_retries' \in 0..MaxRetries
  BY <1>1, <1>2
<1>6. /\ Carried(none, early_retries', thinking') /\ DeltaCount(none) = 0
      /\ Holds(none, NewState, kind')
  BY <1>2, EmptyCarried
<1> HIDE DEF none
<1>7. /\ state'.next \in Nat
      /\ \A u \in Index : state'.down[u] < state'.next
      /\ state'.open \subseteq {u \in Index : state'.down[u] # None} \ state'.suppressed
  BY <1>1, <1>6, HoldsTypes
<1>8. TypeOK'
  BY <1>1, <1>2, <1>5, <1>7 DEF TypeOK
<1>9. state' \in PolicyState
  BY <1>1, <1>6 DEF Holds
<1>10. Tracks(state', kind', upstream', thinking')
  BY <1>1 DEF Tracks, NewState
<1>11. sent' \in Seq(AnEvent) /\ held' \in Seq(AnEvent) /\ sent' = <<>>
  BY <1>1, <1>2, <1>3 DEF none
<1> QED
  BY <1>1, <1>4, <1>6, <1>8, <1>9, <1>10, <1>11 DEF NInv

LEMMA BreakKeeps ==
    ASSUME NInv, Break
    PROVE  NInv'
<1>1. CASE MayRetry
  <2>1. phase = "reading" /\ MayRetry /\ Retried /\ UNCHANGED <<committed, sent, thinking, events>>
    BY <1>1 DEF Break
  <2> QED
    BY <2>1, RetryKeeps
<1>2. CASE ~MayRetry
  <2>1. /\ phase = "reading"
        /\ \/ phase' = "recovering" /\ UNCHANGED <<held, committed, sent>>
           \/ ErrorTail
        /\ UNCHANGED <<kind, upstream, finished, state, early_retries, thinking, events, deltas>>
    BY <1>2 DEF Break
  <2>2. CASE ErrorTail
    BY <2>1, <2>2, ErrorTailKeeps
  <2>3. CASE phase' = "recovering" /\ UNCHANGED <<held, committed, sent>>
    <3>1. Emitted' = Emitted /\ TypeOK'
      BY <2>1, <2>3 DEF Emitted, NInv, TypeOK
    <3> QED
      BY <2>1, <2>3, <3>1 DEF NInv
  <2> QED
    BY <2>1, <2>2, <2>3
<1> QED
  BY <1>1, <1>2

LEMMA OpenKeeps ==
    ASSUME NInv, Open
    PROVE  NInv'
<1>1. /\ phase = "opening" /\ phase' = "reading"
      /\ UNCHANGED <<kind, upstream, finished, state, held, committed, early_retries,
                     thinking, events, deltas, sent>>
  BY DEF Open
<1>2. Emitted' = Emitted /\ TypeOK'
  BY <1>1 DEF Emitted, NInv, TypeOK
<1> QED
  BY <1>1, <1>2 DEF NInv

LEMMA RepairKeeps ==
    ASSUME NInv, RepairTools
    PROVE  NInv'
<1> DEFINE M == Emitted \o Repairs(Emitted)
<1>1. /\ phase # "ended" /\ SuccessTail(M, "tool_use")
      /\ UNCHANGED <<kind, upstream, finished, state, early_retries, thinking, events, deltas>>
  BY DEF RepairTools, Recover
<1>2. early_retries \in Nat /\ Carried(Emitted, early_retries, thinking)
  BY <1>1, TracksKnows
<1>3. /\ Carried(M, early_retries, thinking)
      /\ HasEnd(Emitted) => HasEnd(M)
      /\ DeltaCount(M) >= DeltaCount(Emitted)
  BY <1>2, RepairsCarry
<1> HIDE DEF M
<1> QED
  BY <1>1, <1>3, SuccessTailKeeps

\* The continuation goes on with what was thought, what was said or both.
LEMMA ContinueKeeps ==
    ASSUME NInv, ContinueText
    PROVE  NInv'
<1>1. /\ phase # "ended"
      /\ UNCHANGED <<kind, upstream, finished, state, early_retries, thinking, events, deltas>>
  BY DEF ContinueText, Recover
<1>2. PICK more \in (SUBSET {"thinking", "text"}) \ {{}} :
        /\ "thinking" \in more => thinking
        /\ \E t \in {IF "thinking" \in more THEN Suffix(Emitted, "thinking") ELSE Emitted} :
           \E out \in {IF "text" \in more THEN Suffix(t, "text") ELSE t} :
              SuccessTail(out, "end_turn")
  BY DEF ContinueText
<1> DEFINE t == IF "thinking" \in more THEN Suffix(Emitted, "thinking") ELSE Emitted
           out == IF "text" \in more THEN Suffix(t, "text") ELSE t
<1>3. SuccessTail(out, "end_turn")
  BY <1>2
<1>4. /\ early_retries \in Nat /\ Carried(Emitted, early_retries, thinking)
      /\ Emitted \in Seq(AnEvent) /\ DeltaCount(Emitted) \in Nat
      /\ state.next \in Nat /\ Begun(Emitted) = 0..state.next - 1
  BY <1>1, TracksKnows DEF Holds, PolicyState
<1>5. /\ Carried(t, early_retries, thinking)
      /\ \E l \in Nat : Begun(t) = 0..l - 1
      /\ HasEnd(Emitted) => HasEnd(t)
      /\ DeltaCount(t) >= DeltaCount(Emitted)
  BY <1>2, <1>4, SuffixCarries
<1> HIDE DEF t
<1>6. PICK l \in Nat : Begun(t) = 0..l - 1
  BY <1>5
<1>7. DeltaCount(t) \in Nat
  BY <1>5, JoinedDeltas, EmptySeq DEF Carried
<1>8. /\ Carried(out, early_retries, thinking)
      /\ HasEnd(t) => HasEnd(out)
      /\ DeltaCount(out) >= DeltaCount(t)
  BY <1>4, <1>5, <1>6, <1>7, SuffixCarries
<1> HIDE DEF out
<1>9. DeltaCount(out) \in Nat
  BY <1>8, JoinedDeltas, EmptySeq DEF Carried
<1>10. DeltaCount(out) >= DeltaCount(Emitted) /\ (HasEnd(Emitted) => HasEnd(out))
  BY <1>4, <1>5, <1>7, <1>8, <1>9
<1> QED
  BY <1>1, <1>3, <1>8, <1>10, SuccessTailKeeps

LEMMA NStep == NInv /\ [Next]_vars => NInv'
<1> SUFFICES ASSUME NInv, [Next]_vars PROVE NInv'
  OBVIOUS
<1>1. CASE Open
  BY <1>1, OpenKeeps
<1>2. CASE OpenFails
  BY <1>2, ErrorTailKeeps DEF OpenFails
<1>3. CASE Upstream
  BY <1>3, StartKeeps, DeltaKeeps, StopKeeps, MessageKeeps DEF Upstream
<1>4. CASE Complete
  BY <1>4, CompleteKeeps
<1>5. CASE Break
  BY <1>5, BreakKeeps
<1>6. CASE BreakForGood
  BY <1>6, ErrorTailKeeps DEF BreakForGood
<1>7. CASE RepairTools
  BY <1>7, RepairKeeps
<1>8. CASE ContinueText
  BY <1>8, ContinueKeeps
<1>9. CASE RecoveryFails
  BY <1>9, ErrorTailKeeps DEF RecoveryFails, Recover
<1>10. CASE UNCHANGED vars
  <2>1. Emitted' = Emitted /\ TypeOK'
    BY <1>10 DEF vars, Emitted, NInv, TypeOK
  <2> QED
    BY <1>10, <2>1 DEF vars, NInv
<1> QED
  BY <1>1, <1>2, <1>3, <1>4, <1>5, <1>6, <1>7, <1>8, <1>9, <1>10 DEF Next

\* Whatever was sent is the beginning of what was emitted: all of it once the
\* hold-back has ended, and nothing before.
LEMMA NImplies == NInv => NativeStreamIsWhole
<1> SUFFICES ASSUME NInv PROVE NativeStreamIsWhole
  OBVIOUS
<1> DEFINE none == <<>>
<1>1. none \in Seq(AnEvent) /\ DOMAIN none = {}
  BY EmptySeq, LenProperties
<1>2. Carried(sent, early_retries, thinking)
  <2>1. CASE committed
    <3>1. held = none /\ sent \in Seq(AnEvent)
      BY <2>1 DEF NInv, TypeOK
    <3>2. sent \o none = sent
      BY <3>1, ConcatEmptySeq
    <3> HIDE DEF none
    <3>3. Emitted = sent
      BY <3>1, <3>2 DEF Emitted
    <3> QED
      BY <3>3 DEF NInv
  <2>2. CASE ~committed
    <3>1. sent = none
      BY <2>2 DEF NInv
    <3> HIDE DEF none
    <3> QED
      BY <1>1, <3>1 DEF Carried
  <2> QED
    BY <2>1, <2>2
<1> HIDE DEF none
<1>3. BlocksWellFormed
  BY <1>2 DEF BlocksWellFormed, Carried, Placed, NeedsOpen, Is
<1>4. AllClosedAtEnd
  <2> SUFFICES ASSUME phase = "ended"
               PROVE  /\ \E k \in DOMAIN sent : sent[k].event = "message_stop"
                      /\ \A k \in DOMAIN sent :
                            sent[k].event = "start" => \E j \in DOMAIN sent : Is(j, "stop", sent[k].index)
    BY DEF AllClosedAtEnd
  <2>1. HasEnd(sent) /\ Begun(sent) \subseteq Stopped(sent)
    BY DEF NInv, Whole
  <2>2. ASSUME NEW k \in DOMAIN sent, sent[k].event = "start"
        PROVE  \E j \in DOMAIN sent : Is(j, "stop", sent[k].index)
    <3>1. sent[k].index \in Stopped(sent)
      BY <2>1, <2>2 DEF Begun
    <3> QED
      BY <3>1 DEF Stopped, Is
  <2> QED
    BY <2>1, <2>2 DEF HasEnd
<1>5. SentOfOneAttempt
  BY <1>2 DEF SentOfOneAttempt, Carried, OfAttempt
<1>6. NoDeltaLost
  BY DEF NInv, NoDeltaLost, DeltaCount, DeltaAt
<1>7. ThinkingStaysOff
  BY DEF NInv, ThinkingStaysOff, Carried, OfAttempt
<1> QED
  BY <1>3, <1>4, <1>5, <1>6, <1>7 DEF NInv, NativeStreamIsWhole

-----------------------------------------------------------------------------
\* The theorem about one native answer: for any number of upstream blocks,
\* events and attempts, what the client of stream_response receives is well
\* formed, closed when it ends, of one attempt, without a delta lost and without
\* thinking that is switched off (anthropic_messages.py: stream_response,
\* native_sse_block_policy.py, emitted_sse_tracker.py).
THEOREM NativeStreamWhole == Spec => []NativeStreamIsWhole
<1>1. Init => NInv
  BY NInitially
<1>2. NInv /\ [Next]_vars => NInv'
  BY NStep
<1>3. NInv => NativeStreamIsWhole
  BY NImplies
<1> QED
  BY <1>1, <1>2, <1>3, PTL DEF Spec
=============================================================================

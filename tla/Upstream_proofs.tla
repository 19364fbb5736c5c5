--------------------------- MODULE Upstream_proofs ---------------------------
(***************************************************************************)
(* Proofs about what happens to a request around the upstream: the         *)
(* provider's rate limit, for every number of callers, every limit and     *)
(* every window, the model a session is routed to, the conversation an     *)
(* OpenAI or a native provider is sent, and what a chat message shows of   *)
(* the turn.                                                               *)
(*                                                                         *)
(* For the limit IInv is inductive; the interval property follows from its *)
(* conjunct Spaced by counting indices.  The limiter of a provider adds    *)
(* its slots and its block to the window.                                  *)
(***************************************************************************)
EXTENDS ProviderLimiter, Routing, Replay, Conversion, Transcript, Queues_proofs, TLAPS

\* What popping the first k acquisitions leaves.
LEMMA KeptProperties ==
    ASSUME TypeOK, NEW k \in 0..Len(times)
    PROVE  /\ Kept(k) \in Seq(Nat)
           /\ Len(Kept(k)) = Len(times) - k
           /\ \A i \in 1..Len(times) - k : Kept(k)[i] = times[k + i]
<1>1. times \in Seq(Nat) /\ Len(times) \in Nat
  BY LenProperties DEF TypeOK
<1>2. \A i \in k + 1..Len(times) : times[i] \in Nat
  BY <1>1, ElementOfSeq
<1>3. /\ SubSeq(times, k + 1, Len(times)) \in Seq(Nat)
      /\ Len(SubSeq(times, k + 1, Len(times))) =
            IF k + 1 <= Len(times) THEN Len(times) - (k + 1) + 1 ELSE 0
      /\ \A i \in 1..Len(times) - (k + 1) + 1 :
            SubSeq(times, k + 1, Len(times))[i] = times[k + 1 + i - 1]
  <2> HIDE DEF TypeOK
  <2> QED
    BY <1>1, <1>2, SubSeqProperties
<1> QED
  BY <1>1, <1>3 DEF Kept

\* Acquisitions that a try pops, or popped before, have left the window.
LEMMA PoppedHaveLeft ==
    ASSUME IInv, NEW k \in 0..Len(times), Expired(k)
    PROVE  \A i \in 1..Len(granted) - (Len(times) - k) : granted[i] + rate_window <= now
<1> DEFINE g == Len(granted)
           n == Len(times)
<1>1. g \in Nat /\ n \in Nat /\ n <= g /\ k \in 0..n /\ now \in Nat /\ rate_window \in Nat
  BY LenProperties, WindowAssumption DEF IInv, TypeOK, TimesAreRecent
<1>2. \A i \in 1..g : granted[i] \in Nat
  BY ElementOfSeq DEF IInv, TypeOK
<1>3. \A i \in 1..n : times[i] = granted[g - n + i]
  BY DEF IInv, TimesAreRecent
<1>4. \A i \in 1..g - n : granted[i] + rate_window <= now
  BY DEF IInv, TimesAreRecent
<1>5. \A i \in 1..k : times[i] <= now - rate_window
  BY DEF Expired
<1> SUFFICES ASSUME NEW i \in 1..g - (n - k)
             PROVE  granted[i] + rate_window <= now
  OBVIOUS
<1>6. CASE i <= g - n
  <2> HIDE DEF g, n
  <2> QED
    BY <1>1, <1>4, <1>6
<1>7. CASE i > g - n
  <2> HIDE DEF g, n
  <2>1. i - (g - n) \in 1..k /\ i - (g - n) \in 1..n
    BY <1>1, <1>7
  <2>2. times[i - (g - n)] = granted[g - n + (i - (g - n))]
    BY <2>1, <1>3
  <2>3. g - n + (i - (g - n)) = i
    BY <1>1
  <2>4. granted[i] <= now - rate_window
    BY <2>1, <2>2, <2>3, <1>5
  <2> QED
    BY <2>1, <2>4, <1>1, <1>2
<1> QED
  BY <1>6, <1>7, <1>1

\* The initial state satisfies the inductive invariant.
LEMMA InitIInv == Init => IInv
<1> SUFFICES ASSUME Init PROVE IInv
  OBVIOUS
<1>1. Len(<<>>) = 0 /\ <<>> \in Seq(Nat)
  BY EmptySeq
<1>2. TypeOK
  BY <1>1, WindowAssumption DEF Init, TypeOK
<1>3. TimesAreRecent /\ Ordered /\ Spaced
  BY <1>1, WindowAssumption DEF Init, TimesAreRecent, Ordered, Spaced
<1>4. SleepersWaitForOldest
  BY DEF Init, SleepersWaitForOldest
<1> QED
  BY <1>2, <1>3, <1>4 DEF IInv

\* The clock goes on: what has left the window stays out of it.
LEMMA TickIInv == IInv /\ Tick => IInv'
<1> SUFFICES ASSUME IInv, Tick PROVE IInv'
  OBVIOUS
<1>1. now \in Nat /\ now' = now + 1
  BY DEF IInv, TypeOK, Tick
<1>2. Len(granted) \in Nat /\ \A i \in 1..Len(granted) : granted[i] \in Nat
  BY LenProperties, ElementOfSeq DEF IInv, TypeOK
<1>3. Len(times) \in Nat /\ rate_window \in Nat /\ rate_limit \in Nat
  BY LenProperties, WindowAssumption DEF IInv, TypeOK
<1>4. TypeOK'
  BY <1>1 DEF IInv, TypeOK, Tick
<1>5. TimesAreRecent'
  <2>1. \A i \in 1..Len(granted) - Len(times) : granted[i] + rate_window <= now + 1
    BY <1>1, <1>2, <1>3 DEF IInv, TimesAreRecent
  <2> QED
    BY <2>1, <1>1 DEF IInv, TimesAreRecent, Tick
<1>6. Ordered'
  <2>1. \A i \in 1..Len(granted) : granted[i] <= now + 1
    BY <1>1, <1>2 DEF IInv, Ordered
  <2> QED
    BY <2>1, <1>1 DEF IInv, Ordered, Tick
<1>7. Spaced'
  BY DEF IInv, Spaced, Tick
<1>8. SleepersWaitForOldest'
  <2>1. \A c \in Caller : wake[c] \in Nat
    BY DEF IInv, TypeOK
  <2>2. \A c \in Caller : now + 1 < wake[c] => now < wake[c]
    BY <2>1, <1>1
  <2> QED
    BY <2>2, <1>1 DEF IInv, SleepersWaitForOldest, LastOf, Tick
<1> QED
  BY <1>4, <1>5, <1>6, <1>7, <1>8 DEF IInv

\* An acquisition joins fewer than rate_limit others in the window; the one
\* rate_limit places before it has left, so it cannot be one a caller waits for.
LEMMA AcquireIInv == ASSUME NEW c \in Caller PROVE IInv /\ Acquire(c) => IInv'
<1> SUFFICES ASSUME IInv, Acquire(c) PROVE IInv'
  OBVIOUS
<1>1. PICK k \in 0..Len(times) :
        /\ wake[c] <= now
        /\ Expired(k)
        /\ ~Full(k)
        /\ times' = Append(Kept(k), now)
        /\ granted' = Append(granted, now)
        /\ UNCHANGED <<now, wake>>
  BY DEF Acquire
<1> DEFINE g == Len(granted)
           m == Len(times) - k
<1>2. /\ now \in Nat /\ now' = now /\ wake' = wake
      /\ granted \in Seq(Nat) /\ \A i \in 1..g : granted[i] \in Nat
      /\ \A d \in Caller : wake[d] \in Nat
  BY <1>1, ElementOfSeq DEF IInv, TypeOK
<1>3. /\ Kept(k) \in Seq(Nat) /\ Len(Kept(k)) = m
      /\ \A i \in 1..m : Kept(k)[i] = times[k + i]
  BY <1>1, KeptProperties DEF IInv
<1>4. g \in Nat /\ m \in Nat /\ m <= g /\ m < rate_limit
      /\ rate_limit \in Nat \ {0} /\ rate_window \in Nat \ {0}
  BY <1>1, <1>3, LenProperties, WindowAssumption DEF IInv, TypeOK, TimesAreRecent, Full
<1>5. /\ granted' \in Seq(Nat) /\ Len(granted') = g + 1
      /\ \A i \in 1..g : granted'[i] = granted[i]
      /\ granted'[g + 1] = now
  BY <1>1, <1>2, AppendProperties
<1>6. /\ times' \in Seq(Nat) /\ Len(times') = m + 1
      /\ \A i \in 1..m : times'[i] = times[k + i]
      /\ times'[m + 1] = now
  BY <1>1, <1>2, <1>3, AppendProperties
<1>7. \A i \in 1..g - m : granted[i] + rate_window <= now
  BY <1>1, PoppedHaveLeft
<1>8. \A i \in 1..m : times[k + i] = granted[g - m + i]
  <2> SUFFICES ASSUME NEW i \in 1..m PROVE times[k + i] = granted[g - m + i]
    OBVIOUS
  <2>1. Len(times) \in Nat /\ k + i \in 1..Len(times)
    BY LenProperties DEF IInv, TypeOK
  <2>2. times[k + i] = granted[g - Len(times) + (k + i)]
    BY <2>1 DEF IInv, TimesAreRecent
  <2>3. g - Len(times) + (k + i) = g - m + i
    BY <2>1, <1>4
  <2> QED
    BY <2>2, <2>3
<1>9. /\ \A i \in 1..g : granted[i] <= now
      /\ \A i, j \in 1..g : i <= j => granted[i] <= granted[j]
      /\ \A i \in 1..g - rate_limit : granted[i] + rate_window <= granted[i + rate_limit]
  BY DEF IInv, Ordered, Spaced
<1>10. \A d \in Caller : now < wake[d] =>
         g >= rate_limit /\ wake[d] = granted[g - rate_limit + 1] + rate_window
  BY DEF IInv, SleepersWaitForOldest, LastOf
<1> HIDE DEF g, m
<1>11. TypeOK'
  <2>1. now' \in Nat
    BY <1>2
  <2>2. times' \in Seq(Nat) /\ Len(times') <= rate_limit
    BY <1>4, <1>6
  <2>3. wake' \in [Caller -> Nat]
    BY <1>2 DEF IInv, TypeOK
  <2>4. granted' \in Seq(Nat)
    BY <1>5
  <2> QED
    BY <2>1, <2>2, <2>3, <2>4 DEF TypeOK
<1>12. TimesAreRecent'
  <2>1. \A i \in 1..m + 1 : times'[i] = granted'[(g + 1) - (m + 1) + i]
    <3> SUFFICES ASSUME NEW i \in 1..m + 1
                 PROVE  times'[i] = granted'[g - m + i]
      BY <1>4
    <3>1. CASE i = m + 1
      BY <3>1, <1>4, <1>5, <1>6
    <3>2. CASE i \in 1..m
      <4>1. g - m + i \in 1..g
        BY <3>2, <1>4
      <4> QED
        BY <4>1, <3>2, <1>5, <1>6, <1>8
    <3> QED
      BY <3>1, <3>2, <1>4
  <2>2. \A i \in 1..(g + 1) - (m + 1) : granted'[i] + rate_window <= now
    BY <1>4, <1>5, <1>7
  <2>3. m + 1 <= g + 1 /\ m + 1 <= rate_limit
    BY <1>4
  <2> QED
    BY <2>1, <2>2, <2>3, <1>2, <1>5, <1>6 DEF TimesAreRecent
<1>13. Ordered'
  <2>1. \A i \in 1..g + 1 : granted'[i] <= now
    BY <1>2, <1>4, <1>5, <1>9
  <2>2. \A i, j \in 1..g + 1 : i <= j => granted'[i] <= granted'[j]
    BY <2>1, <1>2, <1>4, <1>5, <1>9
  <2> QED
    BY <2>1, <2>2, <1>2, <1>5 DEF Ordered
<1>14. Spaced'
  <2> SUFFICES ASSUME NEW i \in 1..(g + 1) - rate_limit
               PROVE  granted'[i] + rate_window <= granted'[i + rate_limit]
    BY <1>5 DEF Spaced
  <2>1. CASE i + rate_limit = g + 1
    <3>1. i \in 1..g - m /\ i \in 1..g
      BY <2>1, <1>4
    <3> QED
      BY <2>1, <3>1, <1>5, <1>7
  <2>2. CASE i + rate_limit # g + 1
    <3>1. i \in 1..g - rate_limit /\ i \in 1..g /\ i + rate_limit \in 1..g
      BY <2>2, <1>4
    <3> QED
      BY <3>1, <1>5, <1>9
  <2> QED
    BY <2>1, <2>2
<1>15. SleepersWaitForOldest'
  <2> SUFFICES ASSUME NEW d \in Caller, now < wake[d] PROVE FALSE
    BY <1>2 DEF SleepersWaitForOldest
  <2>1. g >= rate_limit /\ wake[d] = granted[g - rate_limit + 1] + rate_window
    BY <1>10
  <2>2. g - rate_limit + 1 \in 1..g - m
    BY <2>1, <1>4
  <2>3. granted[g - rate_limit + 1] + rate_window <= now
    BY <2>2, <1>7
  <2> QED
    BY <2>1, <2>3, <1>2
<1> QED
  BY <1>11, <1>12, <1>13, <1>14, <1>15 DEF IInv

\* A caller goes to sleep in a full window from which nothing was popped, until
\* its oldest acquisition leaves it.
LEMMA SleepIInv == ASSUME NEW c \in Caller PROVE IInv /\ Sleep(c) => IInv'
<1> SUFFICES ASSUME IInv, Sleep(c) PROVE IInv'
  OBVIOUS
<1>1. PICK k \in 0..Len(times) :
        /\ wake[c] <= now
        /\ Expired(k)
        /\ Full(k)
        /\ times' = Kept(k)
        /\ wake' = [wake EXCEPT ![c] = Kept(k)[1] + rate_window]
        /\ UNCHANGED <<now, granted>>
  BY DEF Sleep
<1> DEFINE g == Len(granted)
<1>2. /\ Len(times) \in Nat /\ g \in Nat /\ Len(times) <= g /\ Len(times) <= rate_limit
      /\ rate_limit \in Nat \ {0} /\ rate_window \in Nat \ {0}
      /\ \A i \in 1..Len(times) : times[i] = granted[g - Len(times) + i]
      /\ times \in Seq(Nat) /\ wake \in [Caller -> Nat]
  BY LenProperties, WindowAssumption DEF IInv, TypeOK, TimesAreRecent
<1>3. k = 0 /\ Len(times) = rate_limit /\ Kept(k) \in Seq(Nat)
  <2>1. Len(Kept(k)) = Len(times) - k /\ Kept(k) \in Seq(Nat)
    BY KeptProperties DEF IInv
  <2> QED
    BY <2>1, <1>1, <1>2 DEF Full
<1>4. times' = times
  BY <1>1, <1>2, <1>3, SubSeqFull DEF Kept
<1>5. Kept(k)[1] = granted[g - rate_limit + 1] /\ Kept(k)[1] \in Nat
  <2>1. Kept(k)[1] = times[1] /\ times[1] \in Nat
    BY <1>1, <1>2, <1>3, <1>4, ElementOfSeq
  <2> QED
    BY <2>1, <1>2, <1>3
<1>6. TypeOK'
  <2>1. wake' \in [Caller -> Nat]
    BY <1>1, <1>2, <1>5
  <2> QED
    BY <2>1, <1>1, <1>4 DEF IInv, TypeOK
<1>7. TimesAreRecent' /\ Ordered' /\ Spaced'
  BY <1>1, <1>4 DEF IInv, TimesAreRecent, Ordered, Spaced
<1>8. SleepersWaitForOldest'
  <2> SUFFICES ASSUME NEW d \in Caller, now < wake'[d]
               PROVE  g >= rate_limit
                      /\ wake'[d] = granted[g - rate_limit + 1] + rate_window
    BY <1>1 DEF SleepersWaitForOldest, LastOf
  <2>1. CASE d = c
    BY <2>1, <1>1, <1>2, <1>3, <1>5
  <2>2. CASE d # c
    <3>1. wake'[d] = wake[d]
      BY <2>2, <1>1, <1>2
    <3> QED
      BY <3>1 DEF IInv, SleepersWaitForOldest, LastOf
  <2> QED
    BY <2>1, <2>2
<1> QED
  BY <1>6, <1>7, <1>8 DEF IInv

LEMMA NextIInv == IInv /\ [Next]_vars => IInv'
<1> SUFFICES ASSUME IInv, [Next]_vars PROVE IInv'
  OBVIOUS
<1>1. CASE Tick
  BY <1>1, TickIInv
<1>2. ASSUME NEW c \in Caller, Acquire(c) PROVE IInv'
  BY <1>2, AcquireIInv
<1>3. ASSUME NEW c \in Caller, Sleep(c) PROVE IInv'
  BY <1>3, SleepIInv
<1>4. CASE UNCHANGED vars
  BY <1>4 DEF vars, IInv, TypeOK, TimesAreRecent, Ordered, Spaced, SleepersWaitForOldest, LastOf
<1> QED
  BY <1>1, <1>2, <1>3, <1>4 DEF Next

\* The inductive invariant holds of every state the limiter reaches.
THEOREM Invariance == Spec => []IInv
<1>1. Init => IInv
  BY InitIInv
<1>2. IInv /\ [Next]_vars => IInv'
  BY NextIInv
<1> QED
  BY <1>1, <1>2, PTL DEF Spec

\* Counting: indices among rate_limit consecutive ones number at most rate_limit.
LEMMA AtMostLimit ==
    ASSUME NEW lo \in Int, NEW S, S \subseteq lo..lo + rate_limit - 1
    PROVE  IsFiniteSet(S) /\ Cardinality(S) <= rate_limit
<1>1. rate_limit \in Nat \ {0}
  BY WindowAssumption
<1>2. IsFiniteSet(lo..lo + rate_limit - 1) /\ Cardinality(lo..lo + rate_limit - 1) = rate_limit
  BY <1>1, FS_Interval
<1> QED
  BY <1>2, FS_Subset

\* The least index of an interval's acquisitions and rate_limit - 1 more are all
\* that Spaced leaves room for.
LEMMA IInvImpliesLimit == IInv => AtMostLimitPerWindow
<1> SUFFICES ASSUME IInv, NEW t \in 0..now
             PROVE  Cardinality({i \in 1..Len(granted) :
                        granted[i] >= t /\ granted[i] < t + rate_window}) <= rate_limit
  BY DEF AtMostLimitPerWindow
<1> DEFINE g == Len(granted)
           S == {i \in 1..g : granted[i] >= t /\ granted[i] < t + rate_window}
<1>1. /\ g \in Nat /\ \A i \in 1..g : granted[i] \in Nat
      /\ rate_limit \in Nat \ {0} /\ rate_window \in Nat \ {0} /\ t \in Nat
  BY LenProperties, ElementOfSeq, WindowAssumption DEF IInv, TypeOK
<1>2. /\ \A i, j \in 1..g : i <= j => granted[i] <= granted[j]
      /\ \A i \in 1..g - rate_limit : granted[i] + rate_window <= granted[i + rate_limit]
  BY DEF IInv, Ordered, Spaced
<1>3. CASE S = {}
  BY <1>1, <1>3, FS_EmptySet
<1>4. CASE S # {}
  <2>1. PICK lo \in S : \A j \in S : lo <= j
    BY <1>1, <1>4, LeastIndex
  <2>2. ASSUME NEW j \in S PROVE j <= lo + rate_limit - 1
    <3> SUFFICES ASSUME j >= lo + rate_limit PROVE FALSE
      BY <1>1, <2>1
    <3>1. lo \in 1..g - rate_limit /\ lo + rate_limit \in 1..g
      BY <1>1, <2>1
    <3>2. granted[lo] + rate_window <= granted[j]
      BY <3>1, <1>1, <1>2, <2>1
    <3> QED
      BY <3>2, <1>1, <2>1
  <2>3. S \subseteq lo..lo + rate_limit - 1
    BY <2>1, <2>2, <1>1
  <2>4. lo \in Int
    BY <2>1
  <2> HIDE DEF S
  <2>5. Cardinality(S) <= rate_limit
    BY <2>3, <2>4, AtMostLimit
  <2> QED
    BY <2>5 DEF S
<1> QED
  BY <1>3, <1>4

\* When a caller sleeps the acquisitions inside the window are exactly the last
\* rate_limit ones.
LEMMA IInvImpliesFull == IInv => SleepOnlyWhenFull
<1> SUFFICES ASSUME IInv, NEW c \in Caller, now < wake[c]
             PROVE  Cardinality({i \in 1..Len(granted) : granted[i] > now - rate_window})
                        = rate_limit
  BY DEF SleepOnlyWhenFull
<1> DEFINE g == Len(granted)
           S == {i \in 1..g : granted[i] > now - rate_window}
<1>1. /\ g \in Nat /\ \A i \in 1..g : granted[i] \in Nat /\ granted[i] <= now
      /\ now \in Nat /\ rate_limit \in Nat \ {0} /\ rate_window \in Nat \ {0}
      /\ wake[c] \in Nat
  BY LenProperties, ElementOfSeq, WindowAssumption DEF IInv, TypeOK, Ordered
<1>2. /\ \A i, j \in 1..g : i <= j => granted[i] <= granted[j]
      /\ \A i \in 1..g - rate_limit : granted[i] + rate_window <= granted[i + rate_limit]
  BY DEF IInv, Ordered, Spaced
<1>3. g >= rate_limit /\ wake[c] = granted[g - rate_limit + 1] + rate_window
  BY DEF IInv, SleepersWaitForOldest, LastOf
<1>4. ASSUME NEW i \in 1..g PROVE i \in S <=> i >= g - rate_limit + 1
  <2>1. g - rate_limit + 1 \in 1..g
    BY <1>1, <1>3
  <2>2. CASE i >= g - rate_limit + 1
    <3>1. granted[g - rate_limit + 1] <= granted[i]
      BY <2>1, <2>2, <1>2
    <3> QED
      BY <3>1, <2>1, <2>2, <1>1, <1>3
  <2>3. CASE i < g - rate_limit + 1
    <3>1. i \in 1..g - rate_limit /\ i + rate_limit \in 1..g
      BY <2>3, <1>1, <1>3
    <3>2. granted[i] + rate_window <= now
      BY <3>1, <1>1, <1>2
    <3> QED
      BY <3>2, <2>3, <1>1
  <2> QED
    BY <2>2, <2>3, <1>1
<1>5. S = g - rate_limit + 1..g
  <2>1. \A i \in g - rate_limit + 1..g : i \in 1..g
    BY <1>1, <1>3
  <2> QED
    BY <2>1, <1>1, <1>4
<1>6. Cardinality(g - rate_limit + 1..g) = rate_limit
  BY <1>1, <1>3, FS_Interval
<1> QED
  BY <1>5, <1>6

\* Types hold in every reachable state.
THEOREM Typing == Spec => []TypeOK
<1>1. IInv => TypeOK
  BY DEF IInv
<1> QED
  BY <1>1, Invariance, PTL

\* However many callers compete, sleep and wake, no interval of rate_window units
\* sees more than rate_limit acquisitions: the promise of core/rate_limit.py:13.
THEOREM Limit == Spec => []AtMostLimitPerWindow
  BY IInvImpliesLimit, Invariance, PTL

\* A sleeper never waits for a place that is free.
THEOREM SleepsWhenFull == Spec => []SleepOnlyWhenFull
  BY IInvImpliesFull, Invariance, PTL

-----------------------------------------------------------------------------
(* The limiter of a provider. *)

\* Who waits for a slot waits once.
SlotsInv == IsInjective(queue) /\ IsFiniteSet(Holding) /\ SlotsAreUsed

\* A request that has looked since the last block was set sleeps until that block
\* is over, and goes on when it is.
LooksInv ==
    \A c \in Caller : ~newer[c] =>
        /\ phase[c] = "blocked" => until[c] = blocked_until
        /\ phase[c] = "window" => blocked_until <= now

LimiterInv == LimiterTypeOK /\ IInv /\ SlotsInv /\ LooksInv /\ BlocksHoldNewcomers

\* A backoff is a length of time.
LEMMA BackoffIsNat ==
    ASSUME NEW a \in Nat, NEW d \in Backoff(a)
    PROVE  d \in Nat
<1>1. PICK power : power = 2^a
  OBVIOUS
<1>2. power \in Nat
  <2>1. IsFiniteSet(1..a) /\ Cardinality(1..a) = a
    BY FS_Interval
  <2>2. IsFiniteSet(SUBSET (1..a)) /\ Cardinality(SUBSET (1..a)) = 2^Cardinality(1..a)
    BY <2>1, FS_SUBSET
  <2> QED
    BY <1>1, <2>1, <2>2, FS_CardinalityType
<1>3. base_delay * power \in Nat
  BY <1>2, LimiterAssumption
<1>4. PICK j \in 0..jitter : d = (IF base_delay * power < max_delay THEN base_delay * power ELSE max_delay) + j
  BY <1>1 DEF Backoff
<1> QED
  BY <1>3, <1>4, LimiterAssumption

\* Types.
LEMMA LimiterTypes ==
    ASSUME LimiterTypeOK, TypeOK', SlotsInv, [LimiterNext]_limiterVars
    PROVE  LimiterTypeOK'
<1> USE DEF LimiterTypeOK, ownVars, Goes
<1>1. CASE UNCHANGED limiterVars
  BY <1>1 DEF limiterVars, vars, TypeOK
<1>2. CASE Clock
  BY <1>2 DEF Clock
<1>3. ASSUME NEW c \in Caller, Open(c) PROVE LimiterTypeOK'
  <2>1. queue' \in Seq(Caller)
    <3>1. Append(queue, c) \in Seq(Caller)
      BY QueueAppend
    <3> QED
      BY <1>3, <3>1 DEF Open
  <2>2. phase' \in [Caller -> Phases]
    BY <1>3 DEF Open, Phases
  <2> QED
    BY <1>3, <2>1, <2>2 DEF Open
<1>4. ASSUME NEW c \in Caller, Release(c), UNCHANGED <<attempt, until, opened>>,
             blocked_until' \in Nat, newer' \in [Caller -> BOOLEAN]
      PROVE  LimiterTypeOK'
  <2>1. queue' \in Seq(Caller)
    <3>1. queue # <<>> => Tail(queue) \in Seq(Caller)
      BY QueueTail
    <3> QED
      BY <1>4, <3>1 DEF Release
  <2>2. phase' \in [Caller -> Phases]
    BY <1>4, QueueTail DEF Release, Phases
  <2> QED
    BY <1>4, <2>1, <2>2
<1>5. ASSUME NEW c \in Caller, Look(c) \/ Unblocked(c) \/ Answered(c) \/ Again(c) \/ Hold(c) PROVE LimiterTypeOK'
  BY <1>5 DEF Look, Unblocked, Answered, Again, Hold, Phases, Wait
<1>6. ASSUME NEW c \in Caller, Call(c) PROVE LimiterTypeOK'
  BY <1>6 DEF Call, Phases
<1>7. ASSUME NEW c \in Caller, Refused(c) PROVE LimiterTypeOK'
  <2>1. PICK delay \in Backoff(attempt[c]) : SetBlocked(delay) /\ until' = [until EXCEPT ![c] = now + delay]
    BY <1>7 DEF Refused
  <2>2. delay \in Nat /\ now \in Nat /\ attempt[c] \in 0..max_retries
    BY <2>1, BackoffIsNat, LimiterAssumption DEF TypeOK
  <2>3. attempt' \in [Caller -> 0..max_retries]
    BY <1>7, <2>2, LimiterAssumption DEF Refused, MayRetry
  <2> QED
    BY <1>7, <2>1, <2>2, <2>3 DEF Refused, SetBlocked, Phases
<1>8. ASSUME NEW c \in Caller, Fails(c) PROVE LimiterTypeOK'
  <2>1. blocked_until' \in Nat /\ newer' \in [Caller -> BOOLEAN]
    <3>1. now + RefusedBlock \in Nat
      BY LimiterAssumption DEF TypeOK
    <3>2. CASE SetBlocked(RefusedBlock)
      BY <3>1, <3>2 DEF SetBlocked
    <3>3. CASE UNCHANGED <<blocked_until, newer>>
      BY <3>3
    <3> QED
      BY <1>8, <3>2, <3>3 DEF Fails
  <2> QED
    BY <1>4, <1>8, <2>1 DEF Fails
<1>9. ASSUME NEW c \in Caller, EndStream(c) PROVE LimiterTypeOK'
  BY <1>4, <1>9 DEF EndStream
<1>10. ASSUME NEW c \in Caller, Leave(c) PROVE LimiterTypeOK'
  <2>1. CASE Release(c)
    BY <1>4, <1>10, <2>1 DEF Leave
  <2>2. CASE queue' = Remaining(queue, {c}) /\ Goes(c, "done")
    BY <1>10, <2>2, QueueRemaining DEF Leave, Phases
  <2> QED
    BY <1>10, <2>1, <2>2 DEF Leave
<1> QED
  BY <1>1, <1>2, <1>3, <1>5, <1>6, <1>7, <1>8, <1>9, <1>10 DEF LimiterNext

\* A slot is taken by one request at a time and handed on to the next in line.
LEMMA SlotsKept ==
    ASSUME LimiterTypeOK, SlotsInv, [LimiterNext]_limiterVars
    PROVE  SlotsInv'
<1> USE DEF ownVars
<1>0. /\ queue \in Seq(Caller) /\ IsInjective(queue) /\ IsFiniteSet(Holding)
      /\ Cardinality(Holding) \in Nat /\ max_concurrency \in Nat
      /\ Cardinality(Holding) <= max_concurrency
      /\ queue # <<>> => Cardinality(Holding) = max_concurrency
      /\ ToSet(queue) = {c \in Caller : phase[c] = "queued"}
      /\ phase \in [Caller -> Phases]
  BY FS_CardinalityType, LimiterAssumption DEF SlotsInv, SlotsAreUsed, LimiterTypeOK, ToSet
\* The queue and the holders are the same.
<1>1. ASSUME UNCHANGED queue,
             \A c \in Caller : \/ phase'[c] = phase[c]
                              \/ {phase[c], phase'[c]} \cap {"new", "queued", "done"} = {}
      PROVE  SlotsInv'
  <2>1. Holding' = Holding /\ {c \in Caller : phase'[c] = "queued"} = {c \in Caller : phase[c] = "queued"}
    BY <1>1 DEF Holding
  <2> QED
    BY <1>1, <2>1 DEF SlotsInv, SlotsAreUsed
<1>2. ASSUME NEW c \in Caller, Open(c) PROVE SlotsInv'
  <2>1. phase[c] = "new" /\ \A d \in Caller \ {c} : phase'[d] = phase[d]
    BY <1>0, <1>2 DEF Open, Goes
  <2>2. CASE queue = <<>> /\ Cardinality(Holding) < max_concurrency
    <3>1. phase'[c] = "looking" /\ queue' = queue
      BY <1>0, <1>2, <2>2 DEF Open, Goes
    <3>2. Holding' = Holding \cup {c} /\ c \notin Holding
      BY <2>1, <3>1 DEF Holding
    <3>3. IsFiniteSet(Holding') /\ Cardinality(Holding') = Cardinality(Holding) + 1
      BY <1>0, <3>2, FS_AddElement
    <3>4. {d \in Caller : phase'[d] = "queued"} = {d \in Caller : phase[d] = "queued"}
      BY <2>1, <3>1
    <3> QED
      BY <1>0, <2>2, <3>1, <3>3, <3>4 DEF SlotsInv, SlotsAreUsed, ToSet
  <2>3. CASE ~(queue = <<>> /\ Cardinality(Holding) < max_concurrency)
    <3>1. phase'[c] = "queued" /\ queue' = Append(queue, c)
      BY <1>0, <1>2, <2>3 DEF Open, Goes
    <3>2. Holding' = Holding
      BY <2>1, <3>1 DEF Holding
    <3>3. IsInjective(queue') /\ ToSet(queue') = ToSet(queue) \cup {c} /\ queue' # <<>>
      BY <1>0, <2>1, <3>1, QueueAppend
    <3>4. ToSet(queue') = {d \in Caller : phase'[d] = "queued"}
      BY <1>0, <2>1, <3>1, <3>3
    <3>5. Cardinality(Holding) = max_concurrency
      BY <1>0, <2>3
    <3> QED
      BY <1>0, <3>2, <3>3, <3>4, <3>5 DEF SlotsInv, SlotsAreUsed, ToSet
  <2> QED
    BY <2>2, <2>3
<1>3. ASSUME NEW c \in Caller, c \in Holding, Release(c) PROVE SlotsInv'
  <2>1. CASE queue = <<>>
    <3>1. phase' = [phase EXCEPT ![c] = "done"] /\ queue' = queue
      BY <1>3, <2>1 DEF Release, Goes
    <3>2. Holding' = Holding \ {c}
      BY <1>0, <3>1 DEF Holding
    <3>3. IsFiniteSet(Holding') /\ Cardinality(Holding') = Cardinality(Holding) - 1
      BY <1>0, <1>3, <3>2, FS_RemoveElement
    <3>4. {d \in Caller : phase'[d] = "queued"} = {d \in Caller : phase[d] = "queued"}
      BY <1>0, <1>3, <3>1 DEF Holding
    <3> QED
      BY <1>0, <2>1, <3>1, <3>3, <3>4 DEF SlotsInv, SlotsAreUsed, ToSet
  <2>2. CASE queue # <<>>
    <3>1. PICK h \in Caller : h = Head(queue)
      BY <1>0, <2>2, QueueTail
    <3>2. phase' = [phase EXCEPT ![c] = "done", ![h] = "looking"] /\ queue' = Tail(queue)
      BY <1>3, <2>2, <3>1 DEF Release
    <3>3. /\ ToSet(queue) = {h} \cup ToSet(queue') /\ h \notin ToSet(queue') /\ IsInjective(queue')
      BY <1>0, <2>2, <3>1, <3>2, QueueTail
    <3>4. phase[h] = "queued" /\ h # c
      BY <1>0, <1>3, <3>3 DEF Holding
    <3>5. Holding' = (Holding \ {c}) \cup {h} /\ h \notin Holding \ {c}
      BY <1>0, <3>2, <3>4 DEF Holding
    <3>6. /\ IsFiniteSet(Holding \ {c}) /\ Cardinality(Holding \ {c}) = Cardinality(Holding) - 1
      BY <1>0, <1>3, FS_RemoveElement
    <3>7. IsFiniteSet(Holding') /\ Cardinality(Holding') = Cardinality(Holding)
      <4>1. Cardinality((Holding \ {c}) \cup {h}) = Cardinality(Holding \ {c}) + 1
        BY <3>5, <3>6, FS_AddElement
      <4>2. IsFiniteSet((Holding \ {c}) \cup {h})
        BY <3>6, FS_AddElement
      <4> QED
        BY <1>0, <3>5, <3>6, <4>1, <4>2
    <3>8. ToSet(queue') = {d \in Caller : phase'[d] = "queued"}
      BY <1>0, <1>3, <3>2, <3>3, <3>4 DEF Holding
    <3> QED
      BY <1>0, <2>2, <3>3, <3>7, <3>8 DEF SlotsInv, SlotsAreUsed, ToSet
  <2> QED
    BY <2>1, <2>2
<1>4. ASSUME NEW c \in Caller, Leave(c) PROVE SlotsInv'
  <2>1. CASE phase[c] = "queued" /\ queue' = Remaining(queue, {c}) /\ Goes(c, "done")
    <3>1. /\ ToSet(queue') = ToSet(queue) \ {c} /\ IsInjective(queue')
      BY <1>0, <2>1, QueueRemaining
    <3>2. Holding' = Holding
      BY <1>0, <2>1 DEF Holding, Goes
    <3>3. ToSet(queue') = {d \in Caller : phase'[d] = "queued"}
      BY <1>0, <2>1, <3>1 DEF Goes
    <3>4. queue # <<>>
      BY <1>0, <2>1, QueueEmpty
    <3> QED
      BY <1>0, <3>1, <3>2, <3>3, <3>4 DEF SlotsInv, SlotsAreUsed, ToSet
  <2>2. CASE phase[c] \in {"blocked", "window", "calling", "backoff"} /\ Release(c)
    BY <1>3, <2>2 DEF Holding
  <2> QED
    BY <1>4, <2>1, <2>2 DEF Leave
<1>5. ASSUME NEW c \in Caller, Fails(c) \/ EndStream(c) PROVE SlotsInv'
  BY <1>3, <1>5 DEF Fails, EndStream, Holding
<1>6. ASSUME NEW c \in Caller,
             Look(c) \/ Unblocked(c) \/ Call(c) \/ Answered(c) \/ Refused(c) \/ Again(c) \/ Hold(c)
      PROVE  SlotsInv'
  BY <1>0, <1>1, <1>6 DEF Look, Unblocked, Call, Answered, Refused, Again, Hold, Goes
<1>7. CASE Clock \/ UNCHANGED limiterVars
  BY <1>0, <1>1, <1>7 DEF Clock, limiterVars
<1> QED
  BY <1>2, <1>4, <1>5, <1>6, <1>7 DEF LimiterNext

\* A block that was there when a request looked is over when the request goes on.
LEMMA LooksKept ==
    ASSUME LimiterTypeOK, LooksInv, BlocksHoldNewcomers, [LimiterNext]_limiterVars
    PROVE  LooksInv' /\ BlocksHoldNewcomers'
<1> USE DEF LooksInv, BlocksHoldNewcomers, ownVars, Goes
<1>0. /\ now \in Nat /\ blocked_until \in Nat /\ phase \in [Caller -> Phases]
      /\ until \in [Caller -> Nat] /\ newer \in [Caller -> BOOLEAN]
  BY DEF LimiterTypeOK, TypeOK
<1>1. CASE UNCHANGED limiterVars
  BY <1>1 DEF limiterVars, vars
<1>2. CASE Clock
  <2>1. now' = now + 1 /\ UNCHANGED <<phase, until, blocked_until, newer, opened>>
    BY <1>2 DEF Clock, Tick
  <2>2. \A c \in Caller : blocked_until <= now => blocked_until <= now'
    BY <1>0, <2>1
  <2> QED
    BY <2>1, <2>2, Zenon
<1>3. ASSUME NEW c \in Caller, Open(c) PROVE LooksInv' /\ BlocksHoldNewcomers'
  BY <1>0, <1>3 DEF Open, vars
<1>4. ASSUME NEW c \in Caller, Look(c) PROVE LooksInv' /\ BlocksHoldNewcomers'
  <2>1. /\ \A d \in Caller \ {c} : phase'[d] = phase[d] /\ until'[d] = until[d] /\ newer'[d] = newer[d]
        /\ \/ phase'[c] = "blocked" /\ until'[c] = blocked_until
           \/ phase'[c] = "window" /\ blocked_until <= now
        /\ UNCHANGED <<blocked_until, opened, now>>
    BY <1>0, <1>4 DEF Look, IsBlocked, Wait, vars
  <2> QED
    BY <2>1
<1>5. ASSUME NEW c \in Caller, Unblocked(c) PROVE LooksInv' /\ BlocksHoldNewcomers'
  BY <1>0, <1>5 DEF Unblocked, vars
<1>6. ASSUME NEW c \in Caller, Hold(c) PROVE LooksInv' /\ BlocksHoldNewcomers'
  BY <1>0, <1>6 DEF Hold, Sleep
<1>7. ASSUME NEW c \in Caller, Call(c) PROVE LooksInv' /\ BlocksHoldNewcomers'
  <2>1. /\ \A d \in Caller \ {c} : phase'[d] = phase[d]
        /\ phase[c] = "window" /\ phase'[c] = "calling"
        /\ UNCHANGED <<until, blocked_until, newer, now>>
    BY <1>0, <1>7 DEF Call, Acquire
  <2>2. LooksInv'
    BY <2>1
  <2>3. IsBlocked => newer[c]
    BY <1>0, <2>1 DEF IsBlocked
  <2>4. BlocksHoldNewcomers'
    BY <1>0, <1>7, <2>3, Zenon DEF Call
  <2> QED
    BY <2>2, <2>4
<1>8. ASSUME NEW c \in Caller, Answered(c) \/ Again(c) PROVE LooksInv' /\ BlocksHoldNewcomers'
  BY <1>0, <1>8 DEF Answered, Again, vars
<1>9. ASSUME NEW c \in Caller, Refused(c) PROVE LooksInv' /\ BlocksHoldNewcomers'
  BY <1>9 DEF Refused, SetBlocked
<1>10. ASSUME NEW c \in Caller, Release(c), UNCHANGED <<until, blocked_until, newer, opened, vars>>
       PROVE  LooksInv' /\ BlocksHoldNewcomers'
  BY <1>0, <1>10 DEF Release, vars
<1>11. ASSUME NEW c \in Caller, Fails(c) PROVE LooksInv' /\ BlocksHoldNewcomers'
  <2>1. CASE SetBlocked(RefusedBlock)
    BY <1>11, <2>1 DEF Fails, SetBlocked
  <2>2. CASE UNCHANGED <<blocked_until, newer>>
    BY <1>10, <1>11, <2>2 DEF Fails
  <2> QED
    BY <1>11, <2>1, <2>2 DEF Fails
<1>12. ASSUME NEW c \in Caller, EndStream(c) PROVE LooksInv' /\ BlocksHoldNewcomers'
  BY <1>10, <1>12 DEF EndStream
<1>13. ASSUME NEW c \in Caller, Leave(c) PROVE LooksInv' /\ BlocksHoldNewcomers'
  <2>1. CASE Release(c)
    BY <1>10, <1>13, <2>1 DEF Leave
  <2>2. CASE Goes(c, "done")
    BY <1>0, <1>13, <2>2 DEF Leave, vars
  <2> QED
    BY <1>13, <2>1, <2>2 DEF Leave
<1> QED
  BY <1>1, <1>2, <1>3, <1>4, <1>5, <1>6, <1>7, <1>8, <1>9, <1>11, <1>12, <1>13 DEF LimiterNext

\* What the limiter does to the window is what SlidingWindow allows.
LEMMA LimiterUsesWindow ==
    ASSUME [LimiterNext]_limiterVars
    PROVE  [Next]_vars
<1>1. CASE UNCHANGED limiterVars
  BY <1>1 DEF limiterVars
<1>2. CASE Clock
  BY <1>2 DEF Clock, Next
<1>3. ASSUME NEW c \in Caller, Hold(c) \/ Call(c) PROVE Next
  BY <1>3 DEF Hold, Call, Next
<1>4. ASSUME NEW c \in Caller,
             \/ Open(c) \/ Look(c) \/ Unblocked(c) \/ Answered(c) \/ Refused(c) \/ Again(c)
             \/ Fails(c) \/ EndStream(c) \/ Leave(c)
      PROVE  UNCHANGED vars
  BY <1>4 DEF Open, Look, Unblocked, Answered, Refused, Again, Fails, EndStream, Leave
<1> QED
  BY <1>1, <1>2, <1>3, <1>4 DEF LimiterNext

LEMMA LimiterInitInv == LimiterInit => LimiterInv
<1> SUFFICES ASSUME LimiterInit PROVE LimiterInv
  OBVIOUS
<1>1. IInv
  BY InitIInv DEF LimiterInit
<1>2. Holding = {} /\ {c \in Caller : phase[c] = "queued"} = {}
  BY DEF LimiterInit, Holding
<1>3. IsFiniteSet(Holding) /\ Cardinality(Holding) = 0
  BY <1>2, FS_EmptySet
<1>4. LimiterTypeOK
  BY <1>1, QueueEmpty, LimiterAssumption DEF IInv, LimiterInit, LimiterTypeOK, Phases
<1>5. SlotsInv
  BY <1>2, <1>3, QueueEmpty, LimiterAssumption DEF LimiterInit, SlotsInv, SlotsAreUsed, ToSet
<1>6. LooksInv /\ BlocksHoldNewcomers
  BY DEF LimiterInit, LooksInv, BlocksHoldNewcomers
<1> QED
  BY <1>1, <1>4, <1>5, <1>6 DEF LimiterInv

LEMMA LimiterNextInv == LimiterInv /\ [LimiterNext]_limiterVars => LimiterInv'
<1> SUFFICES ASSUME LimiterInv, [LimiterNext]_limiterVars PROVE LimiterInv'
  OBVIOUS
<1>1. IInv'
  BY LimiterUsesWindow, NextIInv DEF LimiterInv
<1>2. LimiterTypeOK'
  BY <1>1, LimiterTypes DEF LimiterInv, IInv
<1> QED
  BY <1>1, <1>2, SlotsKept, LooksKept DEF LimiterInv

\* However many requests compete for a provider, fail, are cancelled or are made
\* again: the slots are never exceeded nor lost, a place in the window that is
\* free is not slept for, and only a block set since the request looked is
\* overrun (providers/rate_limit.py: concurrency_slot, wait_if_blocked).
THEOREM LimiterIsUsed == LimiterSpec => []LimitIsUsed
<1>1. LimiterSpec => []LimiterInv
  BY LimiterInitInv, LimiterNextInv, PTL DEF LimiterSpec
<1>2. LimiterInv => LimitIsUsed
  BY IInvImpliesFull DEF LimiterInv, LimitIsUsed, SlotsInv
<1> QED
  BY <1>1, <1>2, PTL

\* The window keeps its promise in the limiter: at most rate_limit attempts are
\* let through in any interval (core/rate_limit.py:13).
THEOREM LimiterKeepsLimit == LimiterSpec => []AtMostLimitPerWindow
<1>1. LimiterSpec => []LimiterInv
  BY LimiterInitInv, LimiterNextInv, PTL DEF LimiterSpec
<1>2. LimiterInv => AtMostLimitPerWindow
  BY IInvImpliesLimit DEF LimiterInv
<1> QED
  BY <1>1, <1>2, PTL

-----------------------------------------------------------------------------
(* The model of a session. *)

\* What the map remembers of a session that was given one of R.
Pins(R) == [session: Session, resolved: R]

RoutingShape ==
    /\ \E R : pinned \in Seq(Pins(R))
    /\ Len(pinned) <= PinnedMax
    /\ previous = [s \in Session |-> previous[s]]
    /\ newcomers \in [Session -> SUBSET Session]
    /\ \A s \in Session : IsFiniteSet(newcomers[s])

\* A session is remembered once, with what it was given; whoever is behind it in
\* the map has come since.
PinnedOnce == \A i, j \in DOMAIN pinned : pinned[i].session = pinned[j].session => i = j
PinnedIsPrevious == \A i \in DOMAIN pinned : previous[pinned[i].session] = pinned[i].resolved
LaterAreNewcomers == \A i, j \in DOMAIN pinned : i < j => pinned[j].session \in newcomers[pinned[i].session]

\* A session that was forgotten has been crowded out.
ForgottenWhenCrowded ==
    \A s \in Session : Pinned(s) = {} /\ previous[s] # None => Cardinality(newcomers[s]) >= PinnedMax

RoutingInv == RoutingShape /\ PinnedOnce /\ PinnedIsPrevious /\ LaterAreNewcomers /\ ForgottenWhenCrowded

\* The sessions of a list are as many as the list is long.
LEMMA DistinctSessions ==
    ASSUME NEW n \in Nat, NEW f, NEW S, IsFiniteSet(S),
           \A i \in 1..n : f[i] \in S,
           \A i, j \in 1..n : f[i] = f[j] => i = j
    PROVE  n <= Cardinality(S)
<1> DEFINE g == [i \in 1..n |-> f[i]]
<1>1. g \in Injection(1..n, S)
  BY DEF Injection, IsInjective
<1>2. Cardinality(1..n) = n
  BY FS_Interval
<1> HIDE DEF g
<1> QED
  BY <1>1, <1>2, FS_Injection

LEMMA StickyStep ==
    ASSUME RoutingInv, NEW s \in Session, RouteSticky(s)
    PROVE  RoutingInv' /\ previous' = previous
<1>1. PICK i \in Pinned(s) : Routed(s, pinned[i].resolved) /\ UNCHANGED <<pinned, newcomers>>
  BY DEF RouteSticky
<1>2. i \in DOMAIN pinned /\ pinned[i].session = s
  BY DEF Pinned
<1>3. previous[s] = pinned[i].resolved
  BY <1>2 DEF RoutingInv, PinnedIsPrevious
<1>4. previous = [t \in Session |-> previous[t]]
  BY DEF RoutingInv, RoutingShape
<1>5. previous' = previous
  <2>1. previous' = IF settings.sticky THEN [previous EXCEPT ![s] = previous[s]] ELSE previous
    BY <1>1, <1>3 DEF Routed
  <2>2. [previous EXCEPT ![s] = previous[s]] = previous
    BY <1>4
  <2> QED
    BY <2>1, <2>2
<1>6. RoutingInv'
  BY <1>1, <1>5 DEF RoutingInv, RoutingShape, PinnedOnce, PinnedIsPrevious, LaterAreNewcomers,
                    ForgottenWhenCrowded, Pinned
<1> QED
  BY <1>5, <1>6

\* A session that is not in the map is put behind all others; the first leaves
\* when there is no room, and the rest are its newcomers.
LEMMA PinnedStep ==
    ASSUME RoutingInv, NEW s \in Session, NEW r, Pinned(s) = {},
           pinned' = Remember(s, r),
           previous' = [previous EXCEPT ![s] = r],
           newcomers' = [t \in Session |-> IF t = s THEN {} ELSE newcomers[t] \cup {s}]
    PROVE  RoutingInv'
<1> DEFINE e == [session |-> s, resolved |-> r]
           all == Append(pinned, e)
           L == Len(pinned)
           drop == IF L + 1 > PinnedMax THEN 1 ELSE 0
<1>1. PICK R : pinned \in Seq(Pins(R))
  BY DEF RoutingInv, RoutingShape
<1>2. pinned \in Seq(Pins(R \cup {r})) /\ e \in Pins(R \cup {r})
  <2>1. Pins(R) \subseteq Pins(R \cup {r}) /\ e \in Pins(R \cup {r})
    BY DEF Pins
  <2> HIDE DEF e
  <2>2. pinned \in Seq(Pins(R \cup {r}))
    BY <1>1, <2>1, SeqMonotonic
  <2> QED
    BY <2>1, <2>2
<1>3. e.session = s /\ e.resolved = r
  OBVIOUS
<1> HIDE DEF e
<1>4. L \in Nat /\ L <= PinnedMax /\ DOMAIN pinned = 1..L /\ PinnedMax \in Nat \ {0}
  BY <1>1, RoutingAssumption DEF RoutingInv, RoutingShape
<1>5. /\ all \in Seq(Pins(R \cup {r})) /\ Len(all) = L + 1
      /\ \A i \in 1..L : all[i] = pinned[i]
      /\ all[L + 1] = e
  BY <1>2, <1>4, AppendProperties
<1>6. \A i \in 1..L : pinned[i].session \in Session /\ pinned[i].session # s
  <2>1. \A i \in 1..L : pinned[i] \in Pins(R)
    BY <1>1, <1>4, ElementOfSeq
  <2> QED
    BY <1>4, <2>1 DEF Pinned, Pins
<1> HIDE DEF all
<1>7. pinned' = IF L + 1 > PinnedMax THEN Tail(all) ELSE all
  BY <1>5 DEF Remember, all, e
<1>8. /\ pinned' \in Seq(Pins(R \cup {r})) /\ Len(pinned') = L + 1 - drop
      /\ \A i \in 1..L + 1 - drop : pinned'[i] = all[i + drop]
  BY <1>4, <1>5, <1>7
<1>9. Len(pinned') <= PinnedMax /\ L + 1 - drop \in Nat /\ drop \in {0, 1} /\ DOMAIN pinned' = 1..L + 1 - drop
  BY <1>4, <1>8
<1>10. /\ newcomers \in [Session -> SUBSET Session] /\ \A t \in Session : IsFiniteSet(newcomers[t])
       /\ previous = [t \in Session |-> previous[t]]
  BY DEF RoutingInv, RoutingShape
<1>11. /\ newcomers'[s] = {} /\ \A t \in Session : t # s => newcomers'[t] = newcomers[t] \cup {s}
       /\ newcomers' \in [Session -> SUBSET Session]
  BY <1>10
<1>12. previous'[s] = r /\ (\A t \in Session : t # s => previous'[t] = previous[t])
       /\ previous' = [t \in Session |-> previous'[t]]
  BY <1>10
<1>13. \A t \in Session : IsFiniteSet(newcomers'[t])
  BY <1>10, <1>11, FS_EmptySet, FS_AddElement
<1>14. RoutingShape'
  BY <1>8, <1>9, <1>11, <1>12, <1>13 DEF RoutingShape
<1>15. \A i, j \in 1..L + 1 : all[i].session = all[j].session => i = j
  BY <1>3, <1>4, <1>5, <1>6 DEF RoutingInv, PinnedOnce
<1>16. \A i \in 1..L + 1 : all[i].session \in Session /\ previous'[all[i].session] = all[i].resolved
  BY <1>3, <1>4, <1>5, <1>6, <1>12 DEF RoutingInv, PinnedIsPrevious
<1>17. \A i, j \in 1..L + 1 : i < j => all[j].session \in newcomers'[all[i].session]
  <2> SUFFICES ASSUME NEW i \in 1..L + 1, NEW j \in 1..L + 1, i < j
               PROVE  all[j].session \in newcomers'[all[i].session]
    OBVIOUS
  <2>1. i \in 1..L /\ all[i] = pinned[i] /\ newcomers'[all[i].session] = newcomers[pinned[i].session] \cup {s}
    BY <1>4, <1>5, <1>6, <1>11
  <2>2. CASE j = L + 1
    BY <1>3, <1>5, <2>1, <2>2
  <2>3. CASE j # L + 1
    <3>1. j \in 1..L /\ all[j] = pinned[j]
      BY <1>4, <1>5, <2>3
    <3> QED
      BY <1>4, <2>1, <3>1 DEF RoutingInv, LaterAreNewcomers
  <2> QED
    BY <2>2, <2>3
<1>18. \A i \in 1..L + 1 - drop : i + drop \in 1..L + 1
  BY <1>4, <1>9
<1> HIDE DEF drop, L
<1>19. PinnedOnce'
  BY <1>8, <1>9, <1>15, <1>18 DEF PinnedOnce
<1>20. PinnedIsPrevious'
  BY <1>8, <1>9, <1>16, <1>18 DEF PinnedIsPrevious
<1>21. LaterAreNewcomers'
  <2> SUFFICES ASSUME NEW i \in DOMAIN pinned', NEW j \in DOMAIN pinned', i < j
               PROVE  pinned'[j].session \in newcomers'[pinned'[i].session]
    BY DEF LaterAreNewcomers
  <2>1. pinned'[i] = all[i + drop] /\ pinned'[j] = all[j + drop]
    BY <1>8, <1>9
  <2>2. i + drop \in 1..L + 1 /\ j + drop \in 1..L + 1 /\ i + drop < j + drop
    <3>1. i \in 1..L + 1 - drop /\ j \in 1..L + 1 - drop
      BY <1>9
    <3>2. i + drop < j + drop
      BY <1>4, <1>9, <3>1
    <3> QED
      BY <1>18, <3>1, <3>2
  <2> QED
    BY <1>17, <2>1, <2>2
<1>22. ForgottenWhenCrowded'
  <2> SUFFICES ASSUME NEW t \in Session, Pinned(t)' = {}, previous'[t] # None
               PROVE  Cardinality(newcomers'[t]) >= PinnedMax
    BY DEF ForgottenWhenCrowded
  <2>1. t # s
    <3>1. L + 1 - drop \in DOMAIN pinned' /\ pinned'[L + 1 - drop].session = s
      BY <1>3, <1>4, <1>5, <1>8, <1>9 DEF drop
    <3> QED
      BY <3>1 DEF Pinned
  <2>2. newcomers'[t] = newcomers[t] \cup {s} /\ previous'[t] = previous[t]
    BY <1>11, <1>12, <2>1
  <2>3. CASE Pinned(t) = {}
    <3>1. Cardinality(newcomers[t]) >= PinnedMax
      BY <2>2, <2>3 DEF RoutingInv, ForgottenWhenCrowded
    <3>2. IsFiniteSet(newcomers[t]) /\ Cardinality(newcomers[t]) \in Nat
      BY <1>10, FS_CardinalityType
    <3>3. Cardinality(newcomers[t] \cup {s}) >= Cardinality(newcomers[t])
      BY <3>2, FS_AddElement
    <3>4. Cardinality(newcomers[t] \cup {s}) \in Nat
      BY <3>2, FS_AddElement, FS_CardinalityType
    <3> QED
      BY <1>4, <2>2, <3>1, <3>2, <3>3, <3>4
  <2>4. CASE Pinned(t) # {}
    <3>1. PICK i \in 1..L : pinned[i].session = t
      BY <1>4, <2>4 DEF Pinned
    <3>2. drop = 1 /\ i = 1 /\ L = PinnedMax
      <4>1. ASSUME i - drop \in 1..L + 1 - drop PROVE FALSE
        <5>1. pinned'[i - drop] = pinned[i]
          <6>1. i - drop + drop = i
            BY <1>4, <1>9
          <6> QED
            BY <1>5, <1>8, <4>1, <6>1
        <5> QED
          BY <1>9, <3>1, <4>1, <5>1 DEF Pinned
      <4>2. i - drop \notin 1..L + 1 - drop
        BY <4>1
      <4> QED
        BY <1>4, <1>9, <4>2 DEF drop
    <3> DEFINE f == [n \in 1..PinnedMax |-> all[n + 1].session]
    <3>3. \A n \in 1..PinnedMax : n + 1 \in 1..L + 1 /\ 1 < n + 1
      BY <1>4, <3>2
    <3>4. all[1].session = t /\ 1 \in 1..L + 1
      BY <1>4, <1>5, <3>1, <3>2
    <3>5. \A n \in 1..PinnedMax : f[n] \in newcomers'[t]
      BY <1>17, <3>3, <3>4
    <3>6. \A m, n \in 1..PinnedMax : f[m] = f[n] => m = n
      <4> SUFFICES ASSUME NEW m \in 1..PinnedMax, NEW n \in 1..PinnedMax, f[m] = f[n] PROVE m = n
        OBVIOUS
      <4>1. m + 1 = n + 1
        BY <1>15, <3>3
      <4> QED
        BY <1>4, <4>1
    <3> HIDE DEF f
    <3>7. PinnedMax <= Cardinality(newcomers'[t])
      BY <1>4, <1>13, <3>5, <3>6, DistinctSessions
    <3>8. Cardinality(newcomers'[t]) \in Nat
      BY <1>13, FS_CardinalityType
    <3> QED
      BY <1>4, <3>7, <3>8
  <2> QED
    BY <2>3, <2>4
<1> QED
  BY <1>14, <1>19, <1>20, <1>21, <1>22 DEF RoutingInv

LEMMA FreshStep ==
    ASSUME RoutingInv, NEW s \in Session, NEW asked, NEW traits, RouteFresh(s, asked, traits)
    PROVE  RoutingInv'
<1> DEFINE r == ResolveName(Preferred(RoutedName(Alias(asked), traits)))
<1>1. CASE settings.sticky
  <2>1. /\ Pinned(s) = {} /\ Routed(s, r) /\ pinned' = Remember(s, r)
        /\ newcomers' = [t \in Session |-> IF t = s THEN {} ELSE newcomers[t] \cup {s}]
    BY <1>1 DEF RouteFresh
  <2> HIDE DEF r
  <2>2. previous' = [previous EXCEPT ![s] = r]
    BY <1>1, <2>1 DEF Routed
  <2> QED
    BY <2>1, <2>2, PinnedStep
<1>2. CASE ~settings.sticky
  <2>1. Routed(s, r) /\ UNCHANGED <<pinned, newcomers>>
    BY <1>2 DEF RouteFresh
  <2> HIDE DEF r
  <2>2. UNCHANGED <<pinned, newcomers, previous>>
    BY <1>2, <2>1 DEF Routed
  <2> QED
    BY <2>2 DEF RoutingInv, RoutingShape, PinnedOnce, PinnedIsPrevious, LaterAreNewcomers,
                ForgottenWhenCrowded, Pinned
<1> QED
  BY <1>1, <1>2

LEMMA QuietRouting ==
    ASSUME RoutingInv, UNCHANGED <<pinned, previous, newcomers>>
    PROVE  RoutingInv'
BY DEF RoutingInv, RoutingShape, PinnedOnce, PinnedIsPrevious, LaterAreNewcomers,
       ForgottenWhenCrowded, Pinned

LEMMA InitRoutingInv == RoutingInit => RoutingInv
<1> SUFFICES ASSUME RoutingInit PROVE RoutingInv
  OBVIOUS
<1> DEFINE none == <<>>
<1>1. none \in Seq(Pins({})) /\ Len(none) = 0 /\ DOMAIN none = {}
  OBVIOUS
<1>2. pinned = none /\ previous = [s \in Session |-> None] /\ newcomers = [s \in Session |-> {}]
  BY DEF RoutingInit
<1> HIDE DEF none
<1>3. RoutingShape
  <2>1. Len(pinned) <= PinnedMax
    BY <1>1, <1>2, RoutingAssumption
  <2>2. newcomers \in [Session -> SUBSET Session] /\ \A s \in Session : IsFiniteSet(newcomers[s])
    BY <1>2, FS_EmptySet
  <2>3. previous = [s \in Session |-> previous[s]]
    BY <1>2
  <2> QED
    BY <1>1, <1>2, <2>1, <2>2, <2>3 DEF RoutingShape
<1>4. PinnedOnce /\ PinnedIsPrevious /\ LaterAreNewcomers
  BY <1>1, <1>2 DEF PinnedOnce, PinnedIsPrevious, LaterAreNewcomers
<1>5. ForgottenWhenCrowded
  BY <1>2 DEF ForgottenWhenCrowded
<1> QED
  BY <1>3, <1>4, <1>5 DEF RoutingInv

LEMMA NextRoutingInv == RoutingInv /\ [RoutingNext]_routingVars => RoutingInv'
<1>1. ASSUME RoutingInv, UNCHANGED routingVars PROVE RoutingInv'
  BY <1>1, QuietRouting DEF routingVars
<1>2. ASSUME RoutingInv, NEW p, Succeed(p) PROVE RoutingInv'
  BY <1>2, QuietRouting DEF Succeed
<1>3. ASSUME RoutingInv, NEW n, ChangeSettings(n) PROVE RoutingInv'
  BY <1>3, QuietRouting DEF ChangeSettings
<1> QED
  BY <1>1, <1>2, <1>3, StickyStep, FreshStep DEF RoutingNext

\* Only a request of a session that is not in the map changes what it is given.
LEMMA ChangedWhenCrowded ==
    ASSUME RoutingInv, RoutingNext, NEW s \in Session, previous[s] # None, previous'[s] # previous[s]
    PROVE  Cardinality(newcomers[s]) >= PinnedMax
<1>1. previous = [t \in Session |-> previous[t]]
  BY DEF RoutingInv, RoutingShape
<1>2. ASSUME NEW t \in Session, RouteSticky(t) PROVE FALSE
  BY <1>2, StickyStep
<1>3. ASSUME NEW t \in Session, NEW asked, NEW traits, RouteFresh(t, asked, traits)
      PROVE  Cardinality(newcomers[s]) >= PinnedMax
  <2> DEFINE r == ResolveName(Preferred(RoutedName(Alias(asked), traits)))
  <2>1. (settings.sticky => Pinned(t) = {}) /\ Routed(t, r)
    BY <1>3 DEF RouteFresh
  <2> HIDE DEF r
  <2>2. settings.sticky /\ t = s
    BY <1>1, <2>1 DEF Routed
  <2> QED
    BY <2>1, <2>2 DEF RoutingInv, ForgottenWhenCrowded
<1>4. ~(\E p \in Provider : Succeed(p)) /\ ~(\E n \in Settings : ChangeSettings(n))
  BY DEF Succeed, ChangeSettings
<1> QED
  BY <1>2, <1>3, <1>4 DEF RoutingNext

\* Whatever the settings become and whoever succeeds, a session keeps the model
\* it was given until PinnedMax other sessions have come since
\* (model_router.py: resolve_messages_request, _SESSION_PROVIDER_MAP), for any
\* number of sessions and any size of the map.
THEOREM Sticks == RoutingSpec => StickyUntilCrowdedOut
<1>1. RoutingSpec => []RoutingInv
  BY InitRoutingInv, NextRoutingInv, PTL DEF RoutingSpec
<1>2. RoutingInv /\ [RoutingNext]_routingVars =>
        [\A s \in Session : previous[s] # None /\ previous'[s] # previous[s]
            => Cardinality(newcomers[s]) >= PinnedMax]_routingVars
  BY ChangedWhenCrowded
<1> QED
  BY <1>1, <1>2, PTL DEF RoutingSpec, StickyUntilCrowdedOut

-----------------------------------------------------------------------------
(* What a native body keeps of the conversation. *)

Block == AssistantBlock \cup ClientBlock

Message ==
    [role : {"assistant"}, content : Seq(AssistantBlock)]
        \cup [role : {"user"}, content : Seq(ClientBlock)]

LEMMA BlockKinds ==
    /\ \A b \in AssistantBlock : b.kind \in {"text", "tool_use", "thinking", "redacted_thinking"}
    /\ \A b \in ClientBlock : b.kind \in {"text", "image", "server_tool", "tool_result"}
    /\ \A b \in Block : b.sound \in BOOLEAN
  BY DEF AssistantBlock, ClientBlock, Block

\* A message of either side, as a sequence of blocks.
LEMMA MessageContent ==
    ASSUME NEW m \in Message
    PROVE  /\ m.role \in {"assistant", "user"}
           /\ m.content \in Seq(Block)
           /\ m.role = "assistant" => m.content \in Seq(AssistantBlock)
           /\ m.role = "user" => m.content \in Seq(ClientBlock)
<1>1. Seq(AssistantBlock) \subseteq Seq(Block) /\ Seq(ClientBlock) \subseteq Seq(Block)
  BY SeqMonotonic DEF Block
<1> QED
  BY <1>1 DEF Message

\* The sets of blocks that are dropped hold no call and no result.
LEMMA DroppedAreNoTools ==
    ASSUME NEW kinds, "tool_use" \notin kinds, "tool_result" \notin kinds
    PROVE  AnyOf(kinds) \cap AnyOf({"tool_use", "tool_result"}) = {}
  BY DEF AnyOf

\* What is left of a message when some blocks are dropped; the calls and results
\* are untouched.
LEMMA ContentLeft ==
    ASSUME NEW q \in Seq(Block), NEW S
    PROVE  /\ Remaining(q, S) \in Seq(Block)
           /\ ToSet(Remaining(q, S)) = ToSet(q) \ S
           /\ S \cap AnyOf({"tool_use", "tool_result"}) = {} => Tools(Remaining(q, S)) = Tools(q)
<1>1. S \cap AnyOf({"tool_use", "tool_result"}) = {} => Tools(Remaining(q, S)) = Tools(q)
  BY AmongRemaining DEF Tools
<1> QED
  BY <1>1, QueueRemaining

\* Two blocks that stay keep their order.
LEMMA OrderLeft ==
    ASSUME NEW q \in Seq(Block), NEW S, NEW k \in DOMAIN q, NEW l \in DOMAIN q,
           k < l, q[k] \notin S, q[l] \notin S
    PROVE  \E i, j \in DOMAIN Remaining(q, S) :
               i < j /\ Remaining(q, S)[i] = q[k] /\ Remaining(q, S)[j] = q[l]
<1> DEFINE r == Remaining(q, S)
<1>1. Sifted(q, S, Block, r, Len(q))
  BY RemainingSifts
<1>2. DOMAIN q = 1..Len(q) /\ DOMAIN r = 1..Len(r)
  BY <1>1, LenProperties DEF Sifted
<1> HIDE DEF r
<1>3. \A x, y : x \notin S /\ y \notin S
          /\ (\E i, j \in 1..Len(q) : i < j /\ q[i] = x /\ q[j] = y)
          => \E i, j \in 1..Len(r) : i < j /\ r[i] = x /\ r[j] = y
  BY <1>1 DEF Sifted
<1>4. \E i, j \in 1..Len(q) : i < j /\ q[i] = q[k] /\ q[j] = q[l]
  BY <1>2
<1>5. \E i, j \in 1..Len(r) : i < j /\ r[i] = q[k] /\ r[j] = q[l]
  BY <1>3, <1>4
<1> QED
  BY <1>2, <1>5 DEF r

\* Where a kind is in a sequence.
LEMMA InContent ==
    ASSUME NEW q, NEW kinds
    PROVE  (\E k \in DOMAIN q : q[k].kind \in kinds) <=> \E b \in ToSet(q) : b.kind \in kinds
  BY DEF ToSet

\* A message without its images: its calls and results are as they were, and one
\* of the assistant, which has none, is as it was.
LEMMA Stripped ==
    ASSUME NEW q \in Seq(Block)
    PROVE  /\ StripMessage(q) \in Seq(Block)
           /\ Tools(StripMessage(q)) = Tools(q)
           /\ (\E k \in DOMAIN StripMessage(q) : StripMessage(q)[k].kind \in {"tool_use", "tool_result"})
                 <=> \E k \in DOMAIN q : q[k].kind \in {"tool_use", "tool_result"}
           /\ q \in Seq(AssistantBlock) => StripMessage(q) = q
           /\ q \in Seq(ClientBlock) =>
                 \A k \in DOMAIN StripMessage(q) : StripMessage(q)[k] \notin Thought
<1> DEFINE S == AnyOf({"image"})
           left == Remaining(q, S)
           s == StripMessage(q)
           tools == AnyOf({"tool_use", "tool_result"})
           kinds == {"tool_use", "tool_result"}
<1>1. S \cap tools = {}
  BY DroppedAreNoTools
<1>2. left \in Seq(Block) /\ ToSet(left) = ToSet(q) \ S /\ Tools(left) = Tools(q)
  BY <1>1, ContentLeft
<1>3. s = IF left = <<>> /\ q # <<>> THEN <<Omitted>> ELSE left
  BY DEF StripMessage
<1>4. Omitted \in Block /\ Omitted \notin tools /\ Omitted \notin Thought /\ Omitted.kind \notin kinds
  BY DEF Omitted, Block, AssistantBlock, AnyOf, Thought
<1>5. <<Omitted>> \in Seq(Block) /\ ToSet(<<Omitted>>) = {Omitted}
  BY <1>4 DEF ToSet
<1>6. Tools(<<Omitted>>) = <<>> /\ Tools(<<>>) = <<>>
  <2>1. ASSUME NEW p \in Seq(Block), ToSet(p) \cap tools = {} PROVE Tools(p) = <<>>
    <3>1. Among(p, tools) \in Seq(Block) /\ ToSet(Among(p, tools)) = ToSet(p) \cap tools
      BY QueueAmong
    <3> QED
      BY <2>1, <3>1, QueueOfNobody DEF Tools
  <2> QED
    BY <1>4, <1>5, <2>1, QueueEmpty
<1>7. Tools(s) = Tools(q)
  BY <1>2, <1>3, <1>6
<1>8. ToSet(q) \subseteq Block
  BY LenProperties, ElementOfSeq DEF ToSet
<1>9. (\E b \in ToSet(s) : b.kind \in kinds) <=> \E b \in ToSet(q) : b.kind \in kinds
  <2>1. \A b \in S : b.kind \notin kinds
    BY DEF AnyOf
  <2>2. (\E b \in ToSet(left) : b.kind \in kinds) <=> \E b \in ToSet(q) : b.kind \in kinds
    BY <1>2, <2>1
  <2>3. ToSet(<<>>) = {}
    BY QueueEmpty
  <2> QED
    BY <1>3, <1>4, <1>5, <2>2, <2>3
<1>10. (\E k \in DOMAIN s : s[k].kind \in kinds) <=> \E k \in DOMAIN q : q[k].kind \in kinds
  BY <1>9, InContent
<1>11. q \in Seq(AssistantBlock) => s = q
  <2> SUFFICES ASSUME q \in Seq(AssistantBlock) PROVE s = q
    OBVIOUS
  <2>1. ToSet(q) \subseteq AssistantBlock
    BY LenProperties, ElementOfSeq DEF ToSet
  <2>2. ToSet(q) \cap S = {}
    BY <2>1, BlockKinds DEF AnyOf
  <2>3. left = q
    BY <2>2, QueueRemaining
  <2> QED
    BY <1>3, <2>3
<1>12. ASSUME q \in Seq(ClientBlock), NEW k \in DOMAIN s PROVE s[k] \notin Thought
  <2>1. ToSet(q) \subseteq ClientBlock
    BY <1>12, LenProperties, ElementOfSeq DEF ToSet
  <2>2. ToSet(q) \cap Thought = {}
    BY <2>1, BlockKinds DEF Thought, AnyOf
  <2>3. ToSet(s) \cap Thought = {}
    BY <1>2, <1>3, <1>4, <1>5, <2>2
  <2> QED
    BY <2>3 DEF ToSet
<1>13. s \in Seq(Block)
  BY <1>2, <1>3, <1>5
<1> QED
  BY <1>7, <1>10, <1>11, <1>12, <1>13

\* The messages without their images.
LEMMA StrippedHistory ==
    ASSUME history \in Seq(Message)
    PROVE  /\ DOMAIN Strip(history) = DOMAIN history
           /\ \A i \in DOMAIN history :
                 /\ Strip(history)[i].role = history[i].role
                 /\ Strip(history)[i].content = StripMessage(history[i].content)
                 /\ history[i] \in Message
<1>1. \A i \in DOMAIN history : history[i] \in Message
  BY LenProperties, ElementOfSeq
<1>2. \A i \in DOMAIN history : Strip(history)[i] = [history[i] EXCEPT !.content = StripMessage(@)]
  BY DEF Strip
<1>3. ASSUME NEW i \in DOMAIN history
      PROVE  /\ Strip(history)[i].role = history[i].role
             /\ Strip(history)[i].content = StripMessage(history[i].content)
  <2> HIDE DEF Strip
  <2> QED
    BY <1>1, <1>2 DEF Message
<1> QED
  BY <1>1, <1>3 DEF Strip

\* Whether a follow-up is unsafe does not depend on the images.
LEMMA UnsafeStays ==
    ASSUME history \in Seq(Message)
    PROVE  /\ UnsafeToolFollowup(Strip(history)) <=> UnsafeToolFollowup(history)
           /\ HasToolHistory(Strip(history)) <=> HasToolHistory(history)
<1> DEFINE messages == Strip(history)
           kinds == {"tool_use", "tool_result"}
<1>1. DOMAIN messages = DOMAIN history
  BY StrippedHistory
<1>2. ASSUME NEW i \in DOMAIN history
      PROVE  /\ messages[i].role = history[i].role
             /\ (\E k \in DOMAIN messages[i].content : messages[i].content[k].kind \in kinds)
                   <=> \E k \in DOMAIN history[i].content : history[i].content[k].kind \in kinds
             /\ history[i].role = "assistant" => messages[i].content = history[i].content
  <2>1. messages[i].role = history[i].role /\ messages[i].content = StripMessage(history[i].content)
        /\ history[i] \in Message
    BY StrippedHistory
  <2>2. /\ history[i].content \in Seq(Block)
        /\ history[i].role = "assistant" => history[i].content \in Seq(AssistantBlock)
    BY <2>1, MessageContent
  <2> DEFINE q == history[i].content
  <2> HIDE DEF q, messages
  <2>3. q \in Seq(Block)
    BY <2>2 DEF q
  <2>4. /\ (\E k \in DOMAIN StripMessage(q) : StripMessage(q)[k].kind \in kinds)
               <=> \E k \in DOMAIN q : q[k].kind \in kinds
        /\ q \in Seq(AssistantBlock) => StripMessage(q) = q
    BY <2>3, Stripped
  <2> QED
    BY <2>1, <2>2, <2>4 DEF q
<1> HIDE DEF messages
<1>3. HasToolHistory(messages) <=> HasToolHistory(history)
  BY <1>1, <1>2 DEF HasToolHistory
<1>4. HasReplayableThinking(messages) <=> HasReplayableThinking(history)
  BY <1>1, <1>2 DEF HasReplayableThinking
<1> QED
  BY <1>3, <1>4 DEF UnsafeToolFollowup, messages

Turn == [role : {"assistant", "user"}, content : Seq(Block)]

\* What dropping blocks of the assistant does to each message: those of the user
\* stay, and no call or result goes unless it is dropped.
LEMMA SanitizedIs ==
    ASSUME NEW messages, \A i \in DOMAIN messages : messages[i] \in Turn,
           NEW S, S \cap AnyOf({"tool_use", "tool_result"}) = {}
    PROVE  /\ DOMAIN Sanitized(messages, S) = DOMAIN messages
           /\ \A i \in DOMAIN messages :
                 /\ Sanitized(messages, S)[i].content =
                       IF messages[i].role = "assistant" THEN Remaining(messages[i].content, S)
                       ELSE messages[i].content
                 /\ Tools(Sanitized(messages, S)[i].content) = Tools(messages[i].content)
                 /\ ToSet(Sanitized(messages, S)[i].content) \subseteq ToSet(messages[i].content)
<1>1. ASSUME NEW i \in DOMAIN messages
      PROVE  Sanitized(messages, S)[i].content =
                 IF messages[i].role = "assistant" THEN Remaining(messages[i].content, S)
                 ELSE messages[i].content
  <2>1. messages[i] \in Turn
    OBVIOUS
  <2>2. Sanitized(messages, S)[i] =
            IF messages[i].role = "assistant"
            THEN [messages[i] EXCEPT !.content = Remaining(@, S)] ELSE messages[i]
    BY DEF Sanitized
  <2> QED
    BY <2>1, <2>2 DEF Turn
<1>2. ASSUME NEW i \in DOMAIN messages
      PROVE  /\ Tools(Sanitized(messages, S)[i].content) = Tools(messages[i].content)
             /\ ToSet(Sanitized(messages, S)[i].content) \subseteq ToSet(messages[i].content)
  <2> DEFINE q == messages[i].content
  <2>1. q \in Seq(Block)
    BY DEF Turn
  <2> HIDE DEF q
  <2>2. Tools(Remaining(q, S)) = Tools(q) /\ ToSet(Remaining(q, S)) = ToSet(q) \ S
    BY <2>1, ContentLeft
  <2> QED
    BY <1>1, <2>2 DEF q
<1> QED
  BY <1>1, <1>2 DEF Sanitized

\* The sets the policies drop.
LEMMA DropsAreNoTools ==
    /\ DeepSeekDrops(TRUE) = AnyOf({"redacted_thinking"})
    /\ DeepSeekDrops(FALSE) = Thought
    /\ \A thinking \in BOOLEAN :
          /\ DeepSeekDrops(thinking) \cap AnyOf({"tool_use", "tool_result"}) = {}
          /\ NativeDrops(thinking) \cap AnyOf({"tool_use", "tool_result"}) = {}
    /\ NativeDrops(FALSE) = Thought
<1>1. /\ AnyOf({"redacted_thinking"}) \cap AnyOf({"tool_use", "tool_result"}) = {}
      /\ Thought \cap AnyOf({"tool_use", "tool_result"}) = {}
      /\ {b \in AnyOf({"thinking"}) : ~b.sound} \cap AnyOf({"tool_use", "tool_result"}) = {}
  BY DEF AnyOf, Thought
<1> QED
  BY <1>1 DEF DeepSeekDrops, NativeDrops

\* When thoughts are dropped, the assistant's messages hold none; the user's never do.
LEMMA NoThoughtLeft ==
    ASSUME NEW m \in Turn, m.role = "user" => ToSet(m.content) \cap Thought = {}
    PROVE  LET c == IF m.role = "assistant" THEN Remaining(m.content, Thought) ELSE m.content
           IN  \A k \in DOMAIN c : c[k] \notin Thought
<1> DEFINE q == m.content
<1>1. q \in Seq(Block) /\ m.role \in {"assistant", "user"}
  BY DEF Turn
<1>2. ToSet(Remaining(q, Thought)) \cap Thought = {}
  BY <1>1, ContentLeft
<1> HIDE DEF q
<1>3. ASSUME NEW c, ToSet(c) \cap Thought = {} PROVE \A k \in DOMAIN c : c[k] \notin Thought
  BY <1>3 DEF ToSet
<1>4. m.role = "assistant" => \A k \in DOMAIN Remaining(q, Thought) : Remaining(q, Thought)[k] \notin Thought
  BY <1>2, <1>3
<1>5. m.role = "user" => \A k \in DOMAIN q : q[k] \notin Thought
  BY <1>3 DEF q
<1> QED
  BY <1>1, <1>4, <1>5 DEF q

\* A thought that led to a call leads to it when redacted thoughts are dropped.
LEMMA ThoughtStays ==
    ASSUME NEW q \in Seq(Block), ThoughtBeforeTool(q)
    PROVE  ThoughtLedToTool(Remaining(q, AnyOf({"redacted_thinking"})))
<1> DEFINE S == AnyOf({"redacted_thinking"})
           r == Remaining(q, S)
<1>1. PICK tool \in DOMAIN q :
          \E k \in 1..(tool - 1) :
              q[tool].kind = "tool_use" /\ q[k].kind = "thinking" /\ q[k].sound
  BY DEF ThoughtBeforeTool
<1>2. PICK k \in 1..(tool - 1) : q[tool].kind = "tool_use" /\ q[k].kind = "thinking" /\ q[k].sound
  BY <1>1
<1>3. k \in DOMAIN q /\ k < tool
  BY LenProperties
<1>4. q[k] \notin S /\ q[tool] \notin S
  BY <1>2 DEF AnyOf
<1>5. \E i, j \in DOMAIN r : i < j /\ r[i] = q[k] /\ r[j] = q[tool]
  <2> HIDE DEF S
  <2> QED
    BY <1>3, <1>4, OrderLeft
<1>6. PICK i \in DOMAIN r, j \in DOMAIN r : i < j /\ r[i] = q[k] /\ r[j] = q[tool]
  BY <1>5
<1> QED
  BY <1>2, <1>6 DEF ThoughtLedToTool

ReplayInv ==
    /\ history \in Seq(Message)
    /\ asks \in [thinking_enabled : BOOLEAN, hints : BOOLEAN]
    /\ BodyIsReplayable

\* The stripped messages are turns, with no thought in the user's.
LEMMA StrippedTurns ==
    ASSUME history \in Seq(Message)
    PROVE  \A i \in DOMAIN history :
               /\ Strip(history)[i] \in Turn /\ history[i] \in Turn
               /\ history[i].role = "user" =>
                     /\ ToSet(Strip(history)[i].content) \cap Thought = {}
                     /\ ToSet(history[i].content) \cap Thought = {}
               /\ Tools(Strip(history)[i].content) = Tools(history[i].content)
<1> SUFFICES ASSUME NEW i \in DOMAIN history
             PROVE  /\ Strip(history)[i] \in Turn /\ history[i] \in Turn
                    /\ history[i].role = "user" =>
                          /\ ToSet(Strip(history)[i].content) \cap Thought = {}
                          /\ ToSet(history[i].content) \cap Thought = {}
                    /\ Tools(Strip(history)[i].content) = Tools(history[i].content)
  OBVIOUS
<1> DEFINE m == history[i]
           q == m.content
<1>1. m \in Message /\ Strip(history)[i].content = StripMessage(q)
  BY StrippedHistory
<1>2. /\ m.role \in {"assistant", "user"} /\ q \in Seq(Block)
      /\ m.role = "user" => q \in Seq(ClientBlock)
  BY <1>1, MessageContent
<1>3. Strip(history)[i] = [m EXCEPT !.content = StripMessage(q)]
  BY DEF Strip
<1> HIDE DEF q, m
<1>4. /\ StripMessage(q) \in Seq(Block)
      /\ Tools(StripMessage(q)) = Tools(q)
      /\ q \in Seq(ClientBlock) =>
            \A k \in DOMAIN StripMessage(q) : StripMessage(q)[k] \notin Thought
  BY <1>2, Stripped
<1>5. m \in Turn
  <2>1. m = [role |-> m.role, content |-> m.content]
    BY <1>1 DEF Message
  <2> QED
    BY <1>2, <2>1 DEF Turn, q
<1>6. Strip(history)[i] \in Turn
  BY <1>3, <1>4, <1>5 DEF Turn
<1>7. ASSUME q \in Seq(ClientBlock)
      PROVE  ToSet(StripMessage(q)) \cap Thought = {} /\ ToSet(q) \cap Thought = {}
  <2>1. ToSet(StripMessage(q)) \cap Thought = {}
    BY <1>4, <1>7 DEF ToSet
  <2>2. ToSet(q) \subseteq ClientBlock
    BY <1>7, LenProperties, ElementOfSeq DEF ToSet
  <2>3. ToSet(q) \cap Thought = {}
    BY <2>2, BlockKinds DEF Thought, AnyOf
  <2> QED
    BY <2>1, <2>3
<1> QED
  BY <1>1, <1>2, <1>4, <1>5, <1>6, <1>7 DEF m, q

LEMMA DeepSeekReplays ==
    ASSUME history \in Seq(Message), asks \in [thinking_enabled : BOOLEAN, hints : BOOLEAN],
           BuildDeepSeek
    PROVE  BodyIsReplayable'
<1> DEFINE messages == Strip(history)
           unsafe == UnsafeToolFollowup(history)
           effective == asks.thinking_enabled /\ ~unsafe
           sent == Sanitized(messages, DeepSeekDrops(effective))
<1>1. UnsafeToolFollowup(messages) = unsafe /\ (HasToolHistory(messages) <=> HasToolHistory(history))
  BY UnsafeStays DEF UnsafeToolFollowup
<1>2. effective \in BOOLEAN /\ asks' = asks /\ history' = history
  BY DEF BuildDeepSeek, UnsafeToolFollowup
<1>3. \/ body'.provider = "refused"
      \/ /\ body'.provider = "deepseek" /\ body'.messages = sent /\ body'.thinking = effective
         /\ body'.hints = (asks.hints /\ (asks.thinking_enabled => effective))
  <2>1. body' = IF Unsupported(messages) THEN [provider |-> "refused"]
                ELSE [provider |-> "deepseek", messages |-> sent, thinking |-> effective,
                      hints |-> asks.hints /\ (asks.thinking_enabled => effective)]
    BY <1>1, Zenon DEF BuildDeepSeek
  <2> HIDE DEF sent, effective, messages
  <2> QED
    BY <2>1
<1>4. DOMAIN messages = DOMAIN history
      /\ \A i \in DOMAIN history :
            /\ messages[i].role = history[i].role /\ history[i] \in Message
            /\ messages[i] \in Turn
            /\ history[i].role = "user" => ToSet(messages[i].content) \cap Thought = {}
            /\ Tools(messages[i].content) = Tools(history[i].content)
  BY StrippedHistory, StrippedTurns
<1> HIDE DEF messages, effective
<1>5. DeepSeekDrops(effective) \cap AnyOf({"tool_use", "tool_result"}) = {}
  BY <1>2, DropsAreNoTools
<1>6. /\ DOMAIN sent = DOMAIN messages
      /\ \A i \in DOMAIN messages :
            /\ sent[i].content = IF messages[i].role = "assistant"
                                 THEN Remaining(messages[i].content, DeepSeekDrops(effective))
                                 ELSE messages[i].content
            /\ Tools(sent[i].content) = Tools(messages[i].content)
            /\ ToSet(sent[i].content) \subseteq ToSet(messages[i].content)
  <2>1. \A i \in DOMAIN messages : messages[i] \in Turn
    BY <1>4
  <2> QED
    BY <1>5, <2>1, SanitizedIs
<1> HIDE DEF sent
<1>7. ASSUME effective, HasToolHistory(sent)
      PROVE  \E i \in DOMAIN sent : ThoughtLedToTool(sent[i].content)
  <2>1. HasToolHistory(messages)
    <3>1. PICK i \in DOMAIN sent : \E k \in DOMAIN sent[i].content :
              sent[i].content[k].kind \in {"tool_use", "tool_result"}
      BY <1>7 DEF HasToolHistory
    <3>2. \E b \in ToSet(sent[i].content) : b.kind \in {"tool_use", "tool_result"}
      BY <3>1, InContent
    <3>3. \E b \in ToSet(messages[i].content) : b.kind \in {"tool_use", "tool_result"}
      BY <3>2, <1>6
    <3>4. \E k \in DOMAIN messages[i].content :
              messages[i].content[k].kind \in {"tool_use", "tool_result"}
      BY <3>3, InContent
    <3> QED
      BY <3>4, <1>6 DEF HasToolHistory
  <2>2. HasReplayableThinking(messages)
    BY <1>1, <1>7, <2>1 DEF effective, UnsafeToolFollowup
  <2>3. PICK i \in DOMAIN messages :
            messages[i].role = "assistant" /\ ThoughtBeforeTool(messages[i].content)
    BY <2>2 DEF HasReplayableThinking
  <2>4. DeepSeekDrops(effective) = AnyOf({"redacted_thinking"})
    BY <1>7, DropsAreNoTools DEF DeepSeekDrops
  <2>5. sent[i].content = Remaining(messages[i].content, AnyOf({"redacted_thinking"}))
    BY <1>6, <2>3, <2>4
  <2>6. messages[i].content \in Seq(Block)
    BY <1>4 DEF Turn
  <2>7. ThoughtLedToTool(sent[i].content)
    BY <2>3, <2>5, <2>6, ThoughtStays
  <2> QED
    BY <2>7, <1>6
<1>8. ASSUME ~effective, NEW i \in DOMAIN sent
      PROVE  \A k \in DOMAIN sent[i].content : sent[i].content[k] \notin Thought
  <2>1. DeepSeekDrops(effective) = Thought
    BY <1>8 DEF DeepSeekDrops
  <2>2. messages[i] \in Turn
        /\ (messages[i].role = "user" => ToSet(messages[i].content) \cap Thought = {})
    BY <1>4, <1>6
  <2>3. sent[i].content = IF messages[i].role = "assistant"
                          THEN Remaining(messages[i].content, Thought) ELSE messages[i].content
    BY <1>6, <2>1
  <2> DEFINE m == messages[i]
  <2> HIDE DEF m
  <2>4. \A k \in DOMAIN (IF m.role = "assistant" THEN Remaining(m.content, Thought) ELSE m.content) :
            (IF m.role = "assistant" THEN Remaining(m.content, Thought) ELSE m.content)[k] \notin Thought
    BY <2>2, NoThoughtLeft DEF m
  <2> QED
    BY <2>3, <2>4 DEF m
<1>9. \A i \in DOMAIN history : Tools(sent[i].content) = Tools(history[i].content)
  BY <1>4, <1>6
<1>10. CASE body'.provider = "refused"
  BY <1>10 DEF BodyIsReplayable
<1>11. CASE /\ body'.provider = "deepseek" /\ body'.messages = sent /\ body'.thinking = effective
            /\ body'.hints = (asks.hints /\ (asks.thinking_enabled => effective))
  <2>1. body'.thinking /\ HasToolHistory(sent) => \E i \in DOMAIN sent : ThoughtLedToTool(sent[i].content)
    BY <1>7, <1>11
  <2>2. ~asks.thinking_enabled \/ unsafe =>
            \A i \in DOMAIN sent : \A k \in DOMAIN sent[i].content : sent[i].content[k] \notin Thought
    BY <1>8 DEF effective
  <2>3. body'.hints /\ asks.thinking_enabled => ~unsafe
    BY <1>11 DEF effective
  <2> QED
    BY <1>2, <1>9, <1>11, <2>1, <2>2, <2>3 DEF BodyIsReplayable
<1> QED
  BY <1>3, <1>10, <1>11

LEMMA NativeReplays ==
    ASSUME history \in Seq(Message), asks \in [thinking_enabled : BOOLEAN, hints : BOOLEAN],
           BuildNative
    PROVE  BodyIsReplayable'
<1> DEFINE thinking == asks.thinking_enabled
           sent == Sanitized(history, NativeDrops(thinking))
<1>1. /\ body'.provider = "native" /\ body'.messages = sent
      /\ asks' = asks /\ history' = history /\ thinking \in BOOLEAN
  BY DEF BuildNative
<1>2. \A i \in DOMAIN history :
          /\ history[i] \in Turn
          /\ history[i].role = "user" => ToSet(history[i].content) \cap Thought = {}
  BY StrippedTurns
<1> HIDE DEF thinking
<1>3. /\ DOMAIN sent = DOMAIN history
      /\ \A i \in DOMAIN history :
            /\ sent[i].content = IF history[i].role = "assistant"
                                 THEN Remaining(history[i].content, NativeDrops(thinking))
                                 ELSE history[i].content
            /\ Tools(sent[i].content) = Tools(history[i].content)
  <2>1. NativeDrops(thinking) \cap AnyOf({"tool_use", "tool_result"}) = {}
    BY <1>1, DropsAreNoTools
  <2> QED
    BY <1>2, <2>1, SanitizedIs
<1> HIDE DEF sent
<1>4. ASSUME ~thinking, NEW i \in DOMAIN sent
      PROVE  \A k \in DOMAIN sent[i].content : sent[i].content[k] \notin Thought
  <2>1. NativeDrops(thinking) = Thought
    BY <1>4 DEF NativeDrops
  <2> DEFINE m == history[i]
  <2>2. m \in Turn /\ (m.role = "user" => ToSet(m.content) \cap Thought = {})
    BY <1>2, <1>3
  <2>3. sent[i].content = IF m.role = "assistant" THEN Remaining(m.content, Thought) ELSE m.content
    BY <1>3, <2>1
  <2> HIDE DEF m
  <2>4. \A k \in DOMAIN (IF m.role = "assistant" THEN Remaining(m.content, Thought) ELSE m.content) :
            (IF m.role = "assistant" THEN Remaining(m.content, Thought) ELSE m.content)[k] \notin Thought
    BY <2>2, NoThoughtLeft
  <2> QED
    BY <2>3, <2>4
<1> QED
  BY <1>1, <1>3, <1>4 DEF BodyIsReplayable, thinking

\* A message joins the conversation.
LEMMA SaysMessage ==
    ASSUME history \in Seq(Message), NEW n \in 1..ReplayBlocks, NEW content, NEW role,
           \/ role = "assistant" /\ content \in [1..n -> AssistantBlock]
           \/ role = "user" /\ content \in [1..n -> ClientBlock],
           Say(role, content)
    PROVE  history' \in Seq(Message)
<1>1. n \in Nat
  BY ReplayAssumption
<1>2. \/ role = "assistant" /\ content \in Seq(AssistantBlock)
      \/ role = "user" /\ content \in Seq(ClientBlock)
  BY <1>1, SeqDef
<1>3. [role |-> role, content |-> content] \in Message
  BY <1>2 DEF Message
<1> QED
  BY <1>3, AppendProperties DEF Say

LEMMA NextReplayInv == ReplayInv /\ [ReplayNext]_replayVars => ReplayInv'
<1> SUFFICES ASSUME ReplayInv, [ReplayNext]_replayVars PROVE ReplayInv'
  OBVIOUS
<1> USE DEF ReplayInv
<1>1. ASSUME NEW n \in 1..ReplayBlocks, NEW content, NEW role,
             \/ role = "assistant" /\ content \in [1..n -> AssistantBlock]
             \/ role = "user" /\ content \in [1..n -> ClientBlock],
             Say(role, content)
      PROVE  ReplayInv'
  <2>1. history' \in Seq(Message)
    BY <1>1, SaysMessage
  <2>2. asks' = asks /\ body' = NotBuilt
    BY <1>1 DEF Say
  <2>3. body'.provider \notin {"deepseek", "native"}
    BY <2>2 DEF NotBuilt
  <2> QED
    BY <2>1, <2>2, <2>3 DEF BodyIsReplayable
<1>2. CASE BuildDeepSeek
  <2>1. history' = history /\ asks' = asks
    BY <1>2 DEF BuildDeepSeek
  <2> QED
    BY <1>2, <2>1, DeepSeekReplays
<1>3. CASE BuildNative
  <2>1. history' = history /\ asks' = asks
    BY <1>3 DEF BuildNative
  <2> QED
    BY <1>3, <2>1, NativeReplays
<1>4. CASE UNCHANGED replayVars
  BY <1>4 DEF replayVars, BodyIsReplayable
<1> QED
  BY <1>1, <1>2, <1>3, <1>4 DEF ReplayNext

\* However long the conversation: DeepSeek is asked to think about a tool's result
\* only with the thought before a call, a body without thinking holds no thought,
\* and no call or result is lost (deepseek/request.py: build_request_body,
\* native_messages_request.py: sanitize_native_messages_thinking_policy).
THEOREM Replays == ReplayInit /\ [][ReplayNext]_replayVars => []BodyIsReplayable
<1>1. ReplayInit => ReplayInv
  BY EmptySeq DEF ReplayInit, ReplayInv, NotBuilt, BodyIsReplayable
<1>2. ReplayInv => BodyIsReplayable
  BY DEF ReplayInv
<1> QED
  BY <1>1, <1>2, NextReplayInv, PTL

-----------------------------------------------------------------------------
(* What a chat message shows of a turn. *)

Ids == Seq(Nat)

\* Which of the Tasks that run an entry of the stack waits for: one whose id
\* begins with the entry, another one for each.
WaitsFor(s, tasksOf, f) ==
    /\ f \in [DOMAIN s -> tasksOf]
    /\ \A i \in DOMAIN s : IsPrefix(s[i], TaskId[f[i]])
    /\ \A i, j \in DOMAIN s : f[i] = f[j] => i = j

\* The stack holds no more than the Tasks that run, and just these while the
\* results come innermost first.
StackInv ==
    IF style = "all"
    THEN /\ \A i \in DOMAIN stack : \E e \in 1..tasks : stack[i] = TaskId[e]
         /\ \A i, j \in DOMAIN stack :
               i < j /\ IsPrefix(stack[j], stack[i]) => stack[j] = stack[i]
         /\ \E f : WaitsFor(stack, ToSet(running), f)
         /\ nested => Len(stack) = Len(running)
         /\ nested => \A i \in DOMAIN stack : stack[i] = TaskId[running[i]]
    ELSE /\ names = {}
         /\ \A i \in DOMAIN stack : stack[i] # <<>> /\ stack[i][1] = 0
         /\ Len(stack) <= Len(running)
         /\ nested => Len(stack) = Len(running)

TranscriptTypes ==
    /\ style \in {"all", "none", "results"}
    /\ segments \in Seq([kind : {"text", "thinking", "subagent", "tool_call", "error"},
                         parts : Seq(Nat)])
    /\ open \in [Index -> [kind : {"none", "text", "thinking", "tool"}, seg : Nat]]
    /\ \A i \in Index : open[i].kind \in {"text", "thinking"} => open[i].seg \in DOMAIN segments
    /\ events = 0 => \A i \in Index : open[i].kind = "none"
    /\ stack \in Seq(Ids)
    /\ running \in Seq(Nat) /\ ToSet(running) \subseteq 1..tasks /\ IsInjective(running)
    /\ tasks \in 0..Len(TaskId)
    /\ outer \subseteq 1..events
    /\ nested \in BOOLEAN
    /\ events \in Nat

TranscriptInv ==
    /\ TranscriptTypes
    /\ StackInv
    /\ \A p \in Places(segments) : Part(segments, p) \in 0..events
    /\ ShownIsOuter

LEMMA PrefixIs ==
    ASSUME NEW a \in Ids, NEW b \in Ids
    PROVE  IsPrefix(a, b) <=> Len(a) <= Len(b) /\ \A i \in 1..Len(a) : a[i] = b[i]
<1>1. Len(a) \in Nat /\ Len(b) \in Nat
  BY LenProperties DEF Ids
<1>2. SubSeq(a, 1, Len(a)) = a
  BY SubSeqFull DEF Ids
<1> SUFFICES ASSUME Len(a) <= Len(b)
             PROVE  a = SubSeq(b, 1, Len(a)) <=> \A i \in 1..Len(a) : a[i] = b[i]
  BY <1>2 DEF IsPrefix
<1>3. /\ SubSeq(b, 1, Len(a)) \in Seq(Nat)
      /\ Len(SubSeq(b, 1, Len(a))) = Len(a)
      /\ \A i \in 1..Len(a) : SubSeq(b, 1, Len(a))[i] = b[i]
  <2>1. 1 \in Int /\ Len(a) \in Int /\ \A i \in 1..Len(a) : i \in 1..Len(b)
    BY <1>1
  <2>2. b \in Seq(Nat) /\ \A i \in 1..Len(a) : b[i] \in Nat
    BY <1>1, ElementOfSeq DEF Ids
  <2> QED
    BY <1>1, <2>1, <2>2, SubSeqProperties
<1> DEFINE c == SubSeq(b, 1, Len(a))
<1> HIDE DEF c
<1>4. c \in Seq(Nat) /\ Len(c) = Len(a) /\ \A i \in 1..Len(a) : c[i] = b[i]
  BY <1>3 DEF c
<1>5. a \in Seq(Nat)
  BY DEF Ids
<1>6. a = c <=> \A i \in 1..Len(a) : a[i] = b[i]
  <2>1. ASSUME \A i \in 1..Len(a) : a[i] = b[i] PROVE a = c
    BY <1>1, <1>4, <1>5, <2>1, SeqEqual
  <2> QED
    BY <1>4, <2>1
<1> QED
  BY <1>6 DEF c

\* The greatest of some numbers up to n.
LEMMA MaxIs ==
    ASSUME NEW n \in Nat, NEW S, S \subseteq 1..n, S # {}
    PROVE  Max(S) \in S /\ \A y \in S : y <= Max(S)
<1>1. \E x \in S : \A y \in S : x >= y
  <2> SUFFICES ASSUME \A x \in S : \E y \in S : ~(x >= y) PROVE FALSE
    OBVIOUS
  <2> DEFINE P == {k \in 0..n : \A y \in S : y <= n - k}
  <2>2. 0 \in P
    OBVIOUS
  <2>3. ASSUME NEW k \in 1..n, k - 1 \in P PROVE k \in P
    <3>1. \A y \in S : y <= n - (k - 1)
      BY <2>3
    <3>2. n - (k - 1) \notin S
      BY <3>1
    <3>3. \A y \in S : y <= n - k
      BY <3>1, <3>2
    <3> QED
      BY <3>3
  <2> HIDE DEF P
  <2>4. 0..n \subseteq P
    BY <2>2, <2>3, Reaches
  <2>5. n \in P
    BY <2>4
  <2>6. \A y \in S : y <= n - n /\ y \in 1..n
    BY <2>5 DEF P
  <2>7. PICK y \in S : TRUE
    OBVIOUS
  <2>8. y <= n - n /\ y \in Int /\ 1 <= y
    BY <2>6, <2>7
  <2> QED
    BY <2>8
<1> QED
  BY <1>1 DEF Max

\* What is left of a sequence that loses an element.
LEMMA RemovedIs ==
    ASSUME NEW T, NEW q \in Seq(T), NEW k \in 1..Len(q)
    PROVE  /\ RemoveAt(q, k) \in Seq(T)
           /\ Len(RemoveAt(q, k)) = Len(q) - 1
           /\ \A i \in 1..k - 1 : RemoveAt(q, k)[i] = q[i]
           /\ \A i \in k..Len(q) - 1 : RemoveAt(q, k)[i] = q[i + 1]
<1> DEFINE a == SubSeq(q, 1, k - 1)
           b == SubSeq(q, k + 1, Len(q))
           n == Len(q)
<1>1. n \in Nat /\ k \in 1..n /\ \A i \in 1..n : q[i] \in T
  BY LenProperties, ElementOfSeq
<1>2. /\ a \in Seq(T) /\ Len(a) = k - 1
      /\ \A i \in 1..k - 1 : a[i] = q[i]
  <2>1. \A i \in 1..k - 1 : q[i] \in T
    BY <1>1
  <2>2. 1 \in Int /\ k - 1 \in Int
    BY <1>1
  <2>3. /\ a \in Seq(T)
        /\ Len(a) = IF 1 <= k - 1 THEN k - 1 - 1 + 1 ELSE 0
        /\ \A i \in 1..k - 1 - 1 + 1 : a[i] = q[1 + i - 1]
    BY <2>1, <2>2, SubSeqProperties
  <2> HIDE DEF a
  <2> QED
    BY <1>1, <2>3
<1>3. /\ b \in Seq(T) /\ Len(b) = n - k
      /\ \A i \in 1..n - k : b[i] = q[k + i]
  <2>1. \A i \in k + 1..n : q[i] \in T
    BY <1>1
  <2>2. k + 1 \in Int /\ n \in Int
    BY <1>1
  <2>3. /\ b \in Seq(T)
        /\ Len(b) = IF k + 1 <= n THEN n - (k + 1) + 1 ELSE 0
        /\ \A i \in 1..n - (k + 1) + 1 : b[i] = q[k + 1 + i - 1]
    BY <2>1, <2>2, SubSeqProperties
  <2> HIDE DEF b, n
  <2> QED
    BY <1>1, <2>3
<1> HIDE DEF a, b, n
<1> DEFINE r == a \o b
<1>4. /\ r \in Seq(T) /\ Len(r) = Len(a) + Len(b)
      /\ \A i \in 1..Len(a) + Len(b) : r[i] = IF i <= Len(a) THEN a[i] ELSE b[i - Len(a)]
  BY <1>2, <1>3, ConcatProperties
<1> HIDE DEF r
<1>5. Len(r) = n - 1
  BY <1>1, <1>2, <1>3, <1>4
<1>6. \A i \in 1..k - 1 : r[i] = q[i]
  BY <1>1, <1>2, <1>3, <1>4 DEF n
<1>7. ASSUME NEW i \in k..n - 1 PROVE r[i] = q[i + 1]
  <2>1. i \in 1..Len(a) + Len(b) /\ ~(i <= Len(a)) /\ i - Len(a) = i - k + 1 /\ i - k + 1 \in 1..n - k
    BY <1>1, <1>2, <1>3 DEF n
  <2>2. r[i] = b[i - k + 1] /\ b[i - k + 1] = q[k + (i - k + 1)]
    BY <1>3, <1>4, <2>1
  <2>3. k + (i - k + 1) = i + 1
    BY <1>1
  <2> QED
    BY <2>2, <2>3
<1> QED
  BY <1>4, <1>5, <1>6, <1>7 DEF RemoveAt, r, a, b, n

LEMMA PrefixTrans ==
    ASSUME NEW a \in Ids, NEW b \in Ids, NEW c \in Ids, IsPrefix(a, b), IsPrefix(b, c)
    PROVE  IsPrefix(a, c)
<1>1. Len(a) \in Nat /\ Len(b) \in Nat /\ Len(c) \in Nat
  BY LenProperties DEF Ids
<1>2. Len(a) <= Len(b) /\ \A i \in 1..Len(a) : a[i] = b[i]
  BY PrefixIs
<1>3. Len(b) <= Len(c) /\ \A i \in 1..Len(b) : b[i] = c[i]
  BY PrefixIs
<1>4. Len(a) <= Len(c) /\ \A i \in 1..Len(a) : a[i] = c[i]
  BY <1>1, <1>2, <1>3
<1> QED
  BY <1>4, PrefixIs

\* Of two beginnings of an id, one begins the other.
LEMMA PrefixesMeet ==
    ASSUME NEW a \in Ids, NEW b \in Ids, NEW c \in Ids, IsPrefix(a, c), IsPrefix(b, c)
    PROVE  IsPrefix(a, b) \/ IsPrefix(b, a)
<1>1. Len(a) \in Nat /\ Len(b) \in Nat /\ Len(c) \in Nat
  BY LenProperties DEF Ids
<1>2. Len(a) <= Len(c) /\ \A i \in 1..Len(a) : a[i] = c[i]
  BY PrefixIs
<1>3. Len(b) <= Len(c) /\ \A i \in 1..Len(b) : b[i] = c[i]
  BY PrefixIs
<1>4. \/ Len(a) <= Len(b) /\ \A i \in 1..Len(a) : a[i] = b[i]
      \/ Len(b) <= Len(a) /\ \A i \in 1..Len(b) : b[i] = a[i]
  BY <1>1, <1>2, <1>3
<1> QED
  BY <1>4, PrefixIs

\* The id of a Task and what a result adds to it.
LEMMA SuffixIs ==
    ASSUME NEW t \in DOMAIN TaskId, NEW suffix \in {<<>>, << 9 >>}
    PROVE  /\ TaskId[t] \in Ids /\ TaskId[t] # <<>> /\ TaskId[t][1] = 1
           /\ TaskId[t] \o suffix \in Ids /\ TaskId[t] \o suffix # <<>>
           /\ (TaskId[t] \o suffix)[1] = 1
           /\ IsPrefix(TaskId[t], TaskId[t] \o suffix)
           /\ IsPrefix(TaskId[t], TaskId[t])
<1> DEFINE a == TaskId[t]
           c == a \o suffix
<1>1. a \in Ids /\ a # <<>> /\ a[1] = 1
  BY TranscriptAssumption, LenProperties, ElementOfSeq DEF Ids
<1>2. suffix \in Ids
  <2>1. <<>> \in Seq(Nat) /\ << 9 >> \in Seq(Nat)
    BY EmptySeq
  <2> QED
    BY <2>1 DEF Ids
<1> HIDE DEF a
<1>3. Len(a) \in Nat /\ Len(suffix) \in Nat /\ Len(a) # 0
  BY <1>1, <1>2, LenProperties, EmptySeq DEF Ids
<1>4. /\ c \in Seq(Nat) /\ Len(c) = Len(a) + Len(suffix)
      /\ \A i \in 1..Len(a) + Len(suffix) :
            c[i] = IF i <= Len(a) THEN a[i] ELSE suffix[i - Len(a)]
  <2>1. a \in Seq(Nat) /\ suffix \in Seq(Nat)
    BY <1>1, <1>2 DEF Ids
  <2> HIDE DEF Ids
  <2> QED
    BY <2>1, ConcatProperties
<1> HIDE DEF c
<1>5. c \in Ids /\ Len(a) <= Len(c) /\ \A i \in 1..Len(a) : a[i] = c[i]
  BY <1>3, <1>4 DEF Ids
<1>6. IsPrefix(a, c) /\ IsPrefix(a, a)
  BY <1>1, <1>3, <1>5, PrefixIs
<1>7. c # <<>> /\ c[1] = 1
  BY <1>1, <1>3, <1>4, EmptySeq
<1> QED
  BY <1>1, <1>5, <1>6, <1>7 DEF a, c

LEMMA FrontIs ==
    ASSUME NEW T, NEW s \in Seq(T), s # <<>>
    PROVE  /\ Front(s) \in Seq(T)
           /\ Len(Front(s)) = Len(s) - 1
           /\ \A i \in 1..Len(s) - 1 : Front(s)[i] = s[i]
<1>1. Len(s) \in Nat /\ Len(s) # 0 /\ \A i \in 1..Len(s) : s[i] \in T
  BY LenProperties, ElementOfSeq, EmptySeq
<1> DEFINE n == Len(s) - 1
<1>2. n \in Int /\ 1 \in Int /\ \A i \in 1..n : s[i] \in T
  BY <1>1
<1>5. n = Len(s) - 1 /\ n \in Nat
  BY <1>1
<1> HIDE DEF n
<1> DEFINE r == SubSeq(s, 1, n)
<1>3. /\ r \in Seq(T)
      /\ Len(r) = IF 1 <= n THEN n - 1 + 1 ELSE 0
      /\ \A i \in 1..n - 1 + 1 : r[i] = s[1 + i - 1]
  BY <1>2, SubSeqProperties
<1> HIDE DEF r
<1>6. Len(r) = n /\ \A i \in 1..n : r[i] = s[i]
  BY <1>3, <1>5
<1>4. r \in Seq(T) /\ Len(r) = Len(s) - 1 /\ \A i \in 1..Len(s) - 1 : r[i] = s[i]
  BY <1>3, <1>5, <1>6
<1> QED
  BY <1>4 DEF Front, r, n

\* The entries a result's id matches, and what popping them leaves.
Matching(id) == {i \in DOMAIN stack : Match(stack[i], id)}

LEMMA PopIs ==
    ASSUME stack \in Seq(Ids), NEW id \in Ids, id # <<>>
    PROVE  /\ Matching(id) = {} => Pop(id) = stack
           /\ Matching(id) # {} =>
                 \E m \in Matching(id) :
                     /\ \A y \in Matching(id) : y <= m
                     /\ Pop(id) \in Seq(Ids)
                     /\ Len(Pop(id)) = m - 1
                     /\ \A i \in 1..m - 1 : Pop(id)[i] = stack[i]
<1> DEFINE M == Matching(id)
           m == Max(M)
<1>1. DOMAIN stack = 1..Len(stack) /\ Len(stack) \in Nat
      /\ \A i \in 1..Len(stack) : stack[i] \in Ids
  BY LenProperties, ElementOfSeq
<1>2. Pop(id) = IF M = {} THEN stack ELSE SubSeq(stack, 1, m - 1)
  BY DEF Pop, Matching
<1>3. M \subseteq 1..Len(stack)
  BY <1>1 DEF Matching
<1> HIDE DEF M
<1>4. ASSUME M # {}
      PROVE  /\ m \in M /\ \A y \in M : y <= m
             /\ SubSeq(stack, 1, m - 1) \in Seq(Ids)
             /\ Len(SubSeq(stack, 1, m - 1)) = m - 1
             /\ \A i \in 1..m - 1 : SubSeq(stack, 1, m - 1)[i] = stack[i]
  <2>1. m \in M /\ \A y \in M : y <= m
    BY <1>1, <1>3, <1>4, MaxIs
  <2> HIDE DEF m
  <2>2. m \in 1..Len(stack)
    BY <1>3, <2>1
  <2> DEFINE n == m - 1
  <2>3. n \in Int /\ 1 \in Int /\ \A i \in 1..n : stack[i] \in Ids
    BY <1>1, <2>2
  <2> HIDE DEF n
  <2>4. /\ SubSeq(stack, 1, n) \in Seq(Ids)
        /\ Len(SubSeq(stack, 1, n)) = IF 1 <= n THEN n - 1 + 1 ELSE 0
        /\ \A i \in 1..n - 1 + 1 : SubSeq(stack, 1, n)[i] = stack[1 + i - 1]
    BY <2>3, SubSeqProperties
  <2> DEFINE r == SubSeq(stack, 1, n)
  <2> HIDE DEF r
  <2>5. r \in Seq(Ids) /\ Len(r) = m - 1 /\ \A i \in 1..m - 1 : r[i] = stack[i]
    BY <1>1, <2>2, <2>4 DEF r, n
  <2> QED
    BY <2>1, <2>5 DEF r, n
<1> QED
  BY <1>2, <1>4 DEF M

\* Who runs when a Task's result has come.
LEMMA RunningLess ==
    ASSUME running \in Seq(Nat), IsInjective(running), NEW k \in DOMAIN running
    PROVE  /\ RemoveAt(running, k) \in Seq(Nat)
           /\ Len(RemoveAt(running, k)) = Len(running) - 1
           /\ ToSet(RemoveAt(running, k)) = ToSet(running) \ {running[k]}
           /\ IsInjective(RemoveAt(running, k))
           /\ \A i \in 1..k - 1 : RemoveAt(running, k)[i] = running[i]
<1> DEFINE r == RemoveAt(running, k)
           n == Len(running)
<1>1. DOMAIN running = 1..n /\ n \in Nat /\ k \in 1..n
  BY LenProperties
<1>2. /\ r \in Seq(Nat) /\ Len(r) = n - 1
      /\ \A i \in 1..k - 1 : r[i] = running[i]
      /\ \A i \in k..n - 1 : r[i] = running[i + 1]
  BY <1>1, RemovedIs
<1> HIDE DEF r, n
<1>3. DOMAIN r = 1..n - 1
  BY <1>2, LenProperties
<1>4. \A i, j \in 1..n : running[i] = running[j] => i = j
  BY <1>1 DEF IsInjective
<1> DEFINE at(i) == IF i < k THEN i ELSE i + 1
<1>5. ASSUME NEW i \in 1..n - 1
      PROVE  at(i) \in 1..n /\ at(i) # k /\ r[i] = running[at(i)]
  <2>1. CASE i < k
    <3>1. i \in 1..k - 1 /\ at(i) = i
      BY <1>1, <2>1
    <3> QED
      BY <1>1, <1>2, <2>1, <3>1
  <2>2. CASE ~(i < k)
    <3>1. i \in k..n - 1 /\ at(i) = i + 1
      BY <1>1, <2>2
    <3> QED
      BY <1>1, <1>2, <2>2, <3>1
  <2> QED
    BY <2>1, <2>2
<1>6. ASSUME NEW i \in 1..n - 1, NEW j \in 1..n - 1, r[i] = r[j] PROVE i = j
  <2>1. at(i) = at(j)
    <3>1. running[at(i)] = running[at(j)] /\ at(i) \in 1..n /\ at(j) \in 1..n
      BY <1>5, <1>6
    <3> HIDE DEF at
    <3> QED
      BY <1>4, <3>1
  <2> QED
    BY <1>1, <2>1
<1>10. IsInjective(r)
  BY <1>3, <1>6 DEF IsInjective
<1>7. ToSet(r) \subseteq ToSet(running) \ {running[k]}
  <2>1. ASSUME NEW i \in 1..n - 1 PROVE r[i] \in ToSet(running) /\ r[i] # running[k]
    <3>1. at(i) \in 1..n /\ at(i) # k /\ r[i] = running[at(i)]
      BY <1>5
    <3> HIDE DEF at
    <3> QED
      BY <1>1, <1>4, <3>1 DEF ToSet
  <2> QED
    BY <1>3, <2>1 DEF ToSet
<1>8. ASSUME NEW j \in 1..n, j # k PROVE \E i \in 1..n - 1 : r[i] = running[j]
  <2>1. CASE j < k
    <3>1. j \in 1..k - 1 /\ j \in 1..n - 1
      BY <1>1, <2>1
    <3> QED
      BY <1>2, <3>1
  <2>2. CASE j > k
    <3>1. j - 1 \in k..n - 1 /\ j - 1 + 1 = j /\ j - 1 \in 1..n - 1
      BY <1>1, <2>2
    <3> QED
      BY <1>2, <3>1
  <2> QED
    BY <1>1, <1>8, <2>1, <2>2
<1>9. ToSet(running) \ {running[k]} \subseteq ToSet(r)
  BY <1>1, <1>3, <1>8 DEF ToSet
<1> QED
  BY <1>2, <1>7, <1>9, <1>10 DEF r, n

\* Where every id is sent, a marker is never on the stack, and a result pops by
\* its id only.
LEMMA EntriesAre ==
    ASSUME TranscriptTypes, StackInv, style = "all"
    PROVE  \A i \in DOMAIN stack : stack[i] \in Ids /\ stack[i] # <<>> /\ stack[i][1] = 1
<1> SUFFICES ASSUME NEW i \in DOMAIN stack
             PROVE  stack[i] \in Ids /\ stack[i] # <<>> /\ stack[i][1] = 1
  OBVIOUS
<1>1. PICK e \in 1..tasks : stack[i] = TaskId[e]
  BY DEF StackInv
<1>2. e \in DOMAIN TaskId
  BY TranscriptAssumption, LenProperties DEF TranscriptTypes
<1> QED
  BY <1>1, <1>2, SuffixIs

LEMMA PopById ==
    ASSUME TranscriptTypes, StackInv, style = "all", NEW id \in Ids
    PROVE  PopForResult(id) = Pop(id)
<1>1. stack # <<>> => stack[Len(stack)][1] # 0
  <2>1. stack # <<>> => Len(stack) \in DOMAIN stack
    BY LenProperties, EmptySeq DEF TranscriptTypes
  <2> QED
    BY <2>1, EntriesAre
<1> QED
  BY <1>1 DEF PopForResult

\* The result of a Task pops an entry that waits for it, or one like it: there
\* is a Task that runs for every entry that is left.
LEMMA TaskPops ==
    ASSUME TranscriptTypes, StackInv, style = "all",
           NEW k \in DOMAIN running, NEW suffix \in {<<>>, << 9 >>}, TaskResult(k, suffix)
    PROVE  StackInv' /\ stack' \in Seq(Ids)
<1> DEFINE t == running[k]
           id == TaskId[t] \o suffix
           M == Matching(id)
           left == ToSet(running) \ {t}
<1>1. /\ running' = RemoveAt(running, k)
      /\ nested' = (nested /\ k = Len(running))
      /\ stack' = PopForResult(id)
      /\ tasks' = tasks /\ style' = style /\ names' = names
  BY DEF TaskResult, Happens
<1>2. /\ running' \in Seq(Nat) /\ Len(running') = Len(running) - 1
      /\ ToSet(running') = left
      /\ \A i \in 1..k - 1 : running'[i] = running[i]
  BY <1>1, RunningLess DEF TranscriptTypes
<1>3. t \in ToSet(running) /\ t \in 1..tasks
  BY DEF ToSet, TranscriptTypes
<1>4. 1..tasks \subseteq DOMAIN TaskId
  BY TranscriptAssumption, LenProperties DEF TranscriptTypes
<1>5. /\ TaskId[t] \in Ids /\ id \in Ids /\ id # <<>>
      /\ IsPrefix(TaskId[t], id)
  BY <1>3, <1>4, SuffixIs
<1>6. stack' = Pop(id)
  BY <1>1, <1>5, PopById
<1>7. \A i \in DOMAIN stack : stack[i] \in Ids /\ stack[i] # <<>>
  BY EntriesAre
<1>8. PICK f : WaitsFor(stack, ToSet(running), f)
  BY DEF StackInv
<1>9. \A i \in DOMAIN stack : f[i] \in ToSet(running) /\ f[i] \in DOMAIN TaskId
                             /\ IsPrefix(stack[i], TaskId[f[i]])
  BY <1>4, <1>8 DEF WaitsFor, TranscriptTypes
<1>10. \A i \in DOMAIN stack : TaskId[f[i]] \in Ids
  BY <1>9, SuffixIs
<1>11. DOMAIN stack = 1..Len(stack) /\ Len(stack) \in Nat
       /\ DOMAIN running = 1..Len(running) /\ Len(running) \in Nat
  BY LenProperties DEF TranscriptTypes
<1> HIDE DEF id, t, M
<1>12. \A i \in DOMAIN stack : IsPrefix(stack[i], TaskId[t]) => i \in M
  <2> SUFFICES ASSUME NEW i \in DOMAIN stack, IsPrefix(stack[i], TaskId[t]) PROVE i \in M
    OBVIOUS
  <2>1. IsPrefix(stack[i], id)
    BY <1>5, <1>7, PrefixTrans
  <2> QED
    BY <1>5, <1>7, <2>1 DEF M, Matching, Match
<1>13. CASE M = {}
  <2>1. stack' = stack
    BY <1>5, <1>6, <1>13, PopIs DEF M, TranscriptTypes
  <2>2. \A i \in DOMAIN stack : f[i] # t
    BY <1>9, <1>12, <1>13
  <2>3. WaitsFor(stack, left, f)
    BY <1>8, <2>2 DEF WaitsFor
  <2>4. ~nested'
    <3> SUFFICES ASSUME nested, k = Len(running) PROVE FALSE
      BY <1>1 DEF TranscriptTypes
    <3>1. k \in DOMAIN stack /\ stack[k] = TaskId[t]
      BY <1>11 DEF StackInv, t
    <3>2. IsPrefix(stack[k], TaskId[t])
      BY <1>3, <1>4, <3>1, SuffixIs
    <3> QED
      BY <1>12, <1>13, <3>1, <3>2
  <2>5. \E g : WaitsFor(stack', ToSet(running'), g)
    BY <1>2, <2>1, <2>3
  <2> QED
    BY <1>1, <2>1, <2>4, <2>5 DEF StackInv, TranscriptTypes
<1>14. CASE M # {}
  <2>1. PICK m \in M : /\ \A y \in M : y <= m
                       /\ stack' \in Seq(Ids)
                       /\ Len(stack') = m - 1
                       /\ \A i \in 1..m - 1 : stack'[i] = stack[i]
    BY <1>5, <1>6, <1>14, PopIs DEF M, TranscriptTypes
  <2>2. m \in DOMAIN stack /\ Match(stack[m], id)
    BY DEF M, Matching
  <2>3. DOMAIN stack' = 1..m - 1 /\ \A i \in DOMAIN stack' : i \in DOMAIN stack /\ i < m /\ stack'[i] = stack[i]
    BY <1>11, <2>1, <2>2, LenProperties
  <2> DEFINE g == [i \in DOMAIN stack' |-> IF f[i] = t THEN f[m] ELSE f[i]]
  <2>4. \A i \in DOMAIN stack' : f[i] # f[m]
    BY <1>8, <2>2, <2>3 DEF WaitsFor
  <2>5. ASSUME NEW i \in DOMAIN stack', f[i] = t PROVE IsPrefix(stack[i], stack[m])
    <3>1. IsPrefix(stack[i], id) /\ stack[i] \in Ids /\ stack[m] \in Ids
      BY <1>5, <1>7, <1>9, <2>2, <2>3, <2>5, PrefixTrans
    <3>2. IsPrefix(stack[m], id) \/ IsPrefix(id, stack[m])
      BY <2>2 DEF Match
    <3>3. CASE IsPrefix(id, stack[m])
      BY <1>5, <3>1, <3>3, PrefixTrans
    <3>4. CASE IsPrefix(stack[m], id)
      <4>1. IsPrefix(stack[i], stack[m]) \/ IsPrefix(stack[m], stack[i])
        BY <1>5, <3>1, <3>4, PrefixesMeet
      <4>2. IsPrefix(stack[m], stack[i]) => stack[m] = stack[i]
        BY <2>2, <2>3 DEF StackInv
      <4> QED
        BY <4>1, <4>2
    <3> QED
      BY <3>2, <3>3, <3>4
  <2>6. ASSUME NEW i \in DOMAIN stack'
        PROVE  g[i] \in left /\ IsPrefix(stack'[i], TaskId[g[i]])
    <3>1. CASE f[i] = t
      <4>1. f[m] # t /\ f[m] \in ToSet(running) /\ g[i] = f[m]
        BY <1>9, <2>2, <2>4, <3>1
      <4>2. IsPrefix(stack[i], stack[m]) /\ IsPrefix(stack[m], TaskId[f[m]])
        BY <1>9, <2>2, <2>5, <3>1
      <4>3. IsPrefix(stack[i], TaskId[f[m]])
        BY <1>7, <1>10, <2>2, <2>3, <4>2, PrefixTrans
      <4> QED
        BY <2>3, <4>1, <4>3
    <3>2. CASE f[i] # t
      <4>1. g[i] = f[i]
        BY <3>2
      <4> HIDE DEF g
      <4> QED
        BY <1>9, <2>3, <3>2, <4>1
    <3> QED
      BY <3>1, <3>2
  <2>7. ASSUME NEW i \in DOMAIN stack', NEW j \in DOMAIN stack', g[i] = g[j] PROVE i = j
    <3>1. \A a, b \in DOMAIN stack : f[a] = f[b] => a = b
      BY <1>8 DEF WaitsFor
    <3>2. f[i] # f[m] /\ f[j] # f[m] /\ i \in DOMAIN stack /\ j \in DOMAIN stack
      BY <2>3, <2>4
    <3>3. f[i] = f[j]
      BY <2>7, <3>2
    <3> QED
      BY <3>1, <3>2, <3>3
  <2>8. g = [i \in DOMAIN stack' |-> g[i]]
    OBVIOUS
  <2>9. \E h : WaitsFor(stack', ToSet(running'), h)
    <3> HIDE DEF g
    <3>1. g \in [DOMAIN stack' -> ToSet(running')]
      BY <1>2, <2>6, <2>8
    <3>2. WaitsFor(stack', ToSet(running'), g)
      BY <2>6, <2>7, <3>1 DEF WaitsFor
    <3> QED
      BY <3>2
  <2>10. \A i \in DOMAIN stack' : \E e \in 1..tasks' : stack'[i] = TaskId[e]
    BY <1>1, <2>3 DEF StackInv
  <2>11. \A i, j \in DOMAIN stack' :
             i < j /\ IsPrefix(stack'[j], stack'[i]) => stack'[j] = stack'[i]
    BY <2>3 DEF StackInv
  <2>12. ASSUME nested'
         PROVE  Len(stack') = Len(running') /\ \A i \in DOMAIN stack' : stack'[i] = TaskId[running'[i]]
    <3>1. nested /\ k = Len(running)
      BY <1>1, <2>12
    <3>2. Len(stack) = k /\ \A i \in DOMAIN stack : stack[i] = TaskId[running[i]]
      BY <3>1 DEF StackInv
    <3>3. k \in DOMAIN stack /\ stack[k] = TaskId[t]
      BY <1>11, <3>1, <3>2 DEF t
    <3>4. k \in M
      <4>1. IsPrefix(stack[k], TaskId[t])
        BY <1>3, <1>4, <3>3, SuffixIs
      <4> QED
        BY <1>12, <3>3, <4>1
    <3>5. m = k
      BY <1>11, <2>1, <2>2, <3>2, <3>4
    <3>6. Len(stack') = Len(running')
      BY <1>2, <2>1, <3>1, <3>5
    <3>7. \A i \in DOMAIN stack' : stack'[i] = TaskId[running'[i]]
      <4> SUFFICES ASSUME NEW i \in DOMAIN stack' PROVE stack'[i] = TaskId[running'[i]]
        OBVIOUS
      <4>1. i \in 1..k - 1 /\ i \in DOMAIN stack /\ stack'[i] = stack[i]
        BY <2>3, <3>5
      <4>2. running'[i] = running[i] /\ stack[i] = TaskId[running[i]]
        BY <1>2, <3>2, <4>1
      <4> QED
        BY <4>1, <4>2
    <3> QED
      BY <3>6, <3>7
  <2>13. style' = "all"
    BY <1>1
  <2> HIDE DEF g
  <2> QED
    BY <2>1, <2>9, <2>10, <2>11, <2>12, <2>13 DEF StackInv
<1> QED
  BY <1>13, <1>14

\* A Task that starts waits for itself.
LEMMA TaskPushes ==
    ASSUME TranscriptTypes, StackInv, style = "all", NEW i \in Index \cup {-1}, StartTask(i)
    PROVE  StackInv' /\ stack' \in Seq(Ids)
<1> DEFINE n == tasks + 1
           id == TaskId[n]
           m == Len(stack) + 1
<1>1. /\ n \in DOMAIN TaskId /\ n \in Nat /\ tasks \in Nat
      /\ DOMAIN stack = 1..Len(stack) /\ Len(stack) \in Nat
      /\ DOMAIN running = 1..Len(running) /\ Len(running) \in Nat
  BY TranscriptAssumption, LenProperties DEF StartTask, TranscriptTypes
<1>2. id \in Ids /\ id # <<>> /\ IsPrefix(id, id)
  BY <1>1, SuffixIs
<1>3. /\ tasks' = n /\ running' = Append(running, n) /\ style' = style /\ nested' = nested
      /\ stack' = Append(stack, id)
  BY <1>2 DEF StartTask, Happens, Push
<1>4. /\ stack' \in Seq(Ids) /\ Len(stack') = m
      /\ \A j \in 1..Len(stack) : stack'[j] = stack[j]
      /\ stack'[m] = id
  BY <1>2, <1>3, AppendProperties DEF TranscriptTypes
<1>5. /\ running' \in Seq(Nat) /\ Len(running') = Len(running) + 1
      /\ ToSet(running') = ToSet(running) \cup {n}
      /\ \A j \in 1..Len(running) : running'[j] = running[j]
      /\ running'[Len(running) + 1] = n
  <2>1. n \in Nat /\ running \in Seq(Nat)
    BY <1>1 DEF TranscriptTypes
  <2> HIDE DEF n
  <2>2. ToSet(Append(running, n)) = ToSet(running) \cup {n}
    BY <2>1, QueueAppend
  <2> QED
    BY <1>1, <1>3, <2>1, <2>2, AppendProperties
<1> HIDE DEF id
<1>6. DOMAIN stack' = 1..m /\ m \in Nat
  BY <1>1, <1>4, LenProperties
<1>7. \A j \in DOMAIN stack' : j # m => j \in DOMAIN stack /\ stack'[j] = stack[j]
  BY <1>1, <1>4, <1>6
<1>8. \A j \in DOMAIN stack' : \E e \in 1..tasks' : stack'[j] = TaskId[e]
  <2>1. \A j \in DOMAIN stack : \E e \in 1..n : stack[j] = TaskId[e]
    <3>1. \A j \in DOMAIN stack : \E e \in 1..tasks : stack[j] = TaskId[e]
      BY DEF StackInv
    <3>2. 1..tasks \subseteq 1..n
      BY <1>1
    <3> QED
      BY <3>1, <3>2
  <2>2. stack'[m] = TaskId[n] /\ n \in 1..n
    BY <1>1, <1>4 DEF id
  <2> QED
    BY <1>3, <1>7, <2>1, <2>2
<1>9. ASSUME NEW a \in DOMAIN stack', NEW b \in DOMAIN stack', a < b, IsPrefix(stack'[b], stack'[a])
      PROVE  stack'[b] = stack'[a]
  <2>1. a \in DOMAIN stack /\ stack'[a] = stack[a]
    BY <1>6, <1>7, <1>9
  <2>2. CASE b = m
    <3>1. PICK e \in 1..tasks : stack[a] = TaskId[e]
      BY <2>1 DEF StackInv
    <3>2. e \in DOMAIN TaskId /\ e < n
      BY <1>1, TranscriptAssumption, LenProperties DEF TranscriptTypes
    <3> QED
      BY <1>1, <1>4, <1>9, <2>1, <2>2, <3>1, <3>2, TranscriptAssumption DEF id
  <2>3. CASE b # m
    BY <1>7, <1>9, <2>1, <2>3 DEF StackInv
  <2> QED
    BY <2>2, <2>3
<1>10. \E g : WaitsFor(stack', ToSet(running'), g)
  <2>1. PICK f : WaitsFor(stack, ToSet(running), f)
    BY DEF StackInv
  <2>2. n \notin ToSet(running)
    BY <1>1 DEF TranscriptTypes
  <2> DEFINE g == [j \in DOMAIN stack' |-> IF j = m THEN n ELSE f[j]]
  <2>3. ASSUME NEW j \in DOMAIN stack'
        PROVE  g[j] \in ToSet(running') /\ IsPrefix(stack'[j], TaskId[g[j]])
               /\ g[j] = (IF j = m THEN n ELSE f[j])
    <3>1. j # m => f[j] \in ToSet(running) /\ IsPrefix(stack[j], TaskId[f[j]])
      BY <1>7, <2>1 DEF WaitsFor
    <3> QED
      BY <1>2, <1>4, <1>5, <1>7, <3>1 DEF id
  <2>4. g = [j \in DOMAIN stack' |-> g[j]]
    OBVIOUS
  <2> HIDE DEF g
  <2>5. ASSUME NEW a \in DOMAIN stack', NEW b \in DOMAIN stack', g[a] = g[b] PROVE a = b
    <3>1. a # m => f[a] \in ToSet(running) /\ a \in DOMAIN stack
      BY <1>7, <2>1 DEF WaitsFor
    <3>2. b # m => f[b] \in ToSet(running) /\ b \in DOMAIN stack
      BY <1>7, <2>1 DEF WaitsFor
    <3>3. \A x, y \in DOMAIN stack : f[x] = f[y] => x = y
      BY <2>1 DEF WaitsFor
    <3> QED
      BY <2>2, <2>3, <2>5, <3>1, <3>2, <3>3
  <2>6. g \in [DOMAIN stack' -> ToSet(running')]
    BY <2>3, <2>4
  <2>7. WaitsFor(stack', ToSet(running'), g)
    BY <2>3, <2>5, <2>6 DEF WaitsFor
  <2> QED
    BY <2>7
<1>11. ASSUME nested'
       PROVE  Len(stack') = Len(running') /\ \A j \in DOMAIN stack' : stack'[j] = TaskId[running'[j]]
  <2>1. Len(stack) = Len(running) /\ \A j \in DOMAIN stack : stack[j] = TaskId[running[j]]
    BY <1>3, <1>11 DEF StackInv
  <2>2. Len(stack') = Len(running')
    BY <1>4, <1>5, <2>1
  <2>3. ASSUME NEW j \in DOMAIN stack' PROVE stack'[j] = TaskId[running'[j]]
    <3>1. CASE j = m
      BY <1>4, <1>5, <2>1, <3>1 DEF id
    <3>2. CASE j # m
      BY <1>1, <1>5, <1>7, <2>1, <3>2
    <3> QED
      BY <3>1, <3>2
  <2> QED
    BY <2>2, <2>3
<1> QED
  BY <1>3, <1>4, <1>8, <1>9, <1>10, <1>11 DEF StackInv

\* The result of another tool pops nothing where ids are sent.
LEMMA ToolPopsNothing ==
    ASSUME TranscriptTypes, StackInv, style = "all", ToolResult
    PROVE  stack' = stack /\ nested' = nested
<1> DEFINE id == <<2, 1>>
<1>1. id \in Ids /\ id # <<>> /\ id[1] = 2 /\ Len(id) = 2
  BY DEF Ids
<1>2. stack' = PopForResult(id) /\ nested' = nested
  BY DEF ToolResult, TranscriptTypes
<1> HIDE DEF id
<1>3. \A i \in DOMAIN stack : ~Match(stack[i], id)
  <2> SUFFICES ASSUME NEW i \in DOMAIN stack, IsPrefix(stack[i], id) \/ IsPrefix(id, stack[i])
               PROVE  FALSE
    BY DEF Match
  <2>1. stack[i] \in Ids /\ stack[i] # <<>> /\ stack[i][1] = 1
    BY EntriesAre
  <2>2. Len(stack[i]) \in Nat /\ Len(stack[i]) # 0
    BY <2>1, LenProperties, EmptySeq DEF Ids
  <2>3. stack[i][1] = id[1]
    BY <1>1, <2>1, <2>2, PrefixIs
  <2> QED
    BY <1>1, <2>1, <2>3
<1>4. Matching(id) = {}
  BY <1>3 DEF Matching
<1> QED
  BY <1>1, <1>2, <1>4, PopById, PopIs DEF TranscriptTypes

-----------------------------------------------------------------------------
(* Markers. *)

\* Without the ids of the calls, a marker is popped by any result without an id
\* and by the id of any Task, and by nothing else.
LEMMA MarkerPops ==
    ASSUME TranscriptTypes, StackInv, style # "all", NEW id \in Ids,
           id # <<>> => id[1] \in {1, 2}
    PROVE  PopForResult(id) = IF stack # <<>> /\ (id = <<>> \/ id[1] = 1) THEN Front(stack) ELSE stack
<1>1. stack # <<>> => Len(stack) \in DOMAIN stack /\ stack[Len(stack)][1] = 0
  <2>1. stack # <<>> => Len(stack) \in DOMAIN stack
    BY LenProperties, EmptySeq DEF TranscriptTypes
  <2> QED
    BY <2>1 DEF StackInv
<1>2. CASE id = <<>>
  BY <1>1, <1>2 DEF PopForResult, Pop
<1>3. CASE id # <<>>
  <2>1. \A i \in DOMAIN stack : ~Match(stack[i], id)
    <3> SUFFICES ASSUME NEW i \in DOMAIN stack, IsPrefix(stack[i], id) \/ IsPrefix(id, stack[i])
                 PROVE  FALSE
      BY DEF Match
    <3>1. stack[i] \in Ids /\ stack[i] # <<>> /\ stack[i][1] = 0
      BY LenProperties, ElementOfSeq DEF StackInv, TranscriptTypes
    <3>2. Len(stack[i]) \in Nat /\ Len(stack[i]) # 0 /\ Len(id) \in Nat /\ Len(id) # 0
      BY <1>3, <3>1, LenProperties, EmptySeq DEF Ids
    <3>3. stack[i][1] = id[1]
      BY <3>1, <3>2, PrefixIs
    <3> QED
      BY <1>3, <3>1, <3>3
  <2>2. Pop(id) = stack
    <3>1. Matching(id) = {}
      BY <2>1 DEF Matching
    <3> QED
      BY <1>3, <3>1, PopIs DEF TranscriptTypes
  <2>3. Pop(<<>>) = IF stack # <<>> THEN Front(stack) ELSE stack
    BY <1>1 DEF Pop
  <2>4. {k \in names : k.id = id} = {}
    BY DEF StackInv
  <2>5. PopForResult(id) = IF stack # <<>> /\ id[1] = 1 THEN Pop(<<>>) ELSE stack
    <3> HIDE DEF Pop
    <3> QED
      BY <1>1, <1>3, <2>2, <2>4 DEF PopForResult
  <2> QED
    BY <1>3, <2>3, <2>5
<1> QED
  BY <1>2, <1>3

LEMMA MarkerStep ==
    ASSUME TranscriptTypes, StackInv, style # "all",
           \/ \E i \in Index \cup {-1} : StartTask(i)
           \/ \E k \in DOMAIN running, suffix \in {<<>>, << 9 >>} : TaskResult(k, suffix)
           \/ ToolResult
    PROVE  StackInv' /\ stack' \in Seq(Ids)
<1>1. /\ Len(stack) \in Nat /\ Len(running) \in Nat /\ stack \in Seq(Ids)
      /\ DOMAIN stack = 1..Len(stack) /\ nested \in BOOLEAN
      /\ names = {} /\ Len(stack) <= Len(running)
      /\ nested => Len(stack) = Len(running)
      /\ \A i \in DOMAIN stack : stack[i] # <<>> /\ stack[i][1] = 0
  BY LenProperties DEF TranscriptTypes, StackInv
<1>2. ASSUME NEW i \in Index \cup {-1}, StartTask(i) PROVE StackInv' /\ stack' \in Seq(Ids)
  <2> DEFINE mark == <<0, Len(stack) + 1>>
  <2>1. mark \in Ids /\ mark # <<>> /\ mark[1] = 0
    BY <1>1 DEF Ids
  <2>2. /\ running' = Append(running, tasks + 1) /\ style' = style /\ nested' = nested
        /\ stack' = Append(stack, mark) /\ names' = names
    BY <1>2 DEF StartTask, Happens, Push, Known
  <2> HIDE DEF mark
  <2>3. /\ stack' \in Seq(Ids) /\ Len(stack') = Len(stack) + 1
        /\ \A j \in 1..Len(stack) : stack'[j] = stack[j]
        /\ stack'[Len(stack) + 1] = mark
    BY <2>1, <2>2, AppendProperties DEF TranscriptTypes
  <2>4. Len(running') = Len(running) + 1
    BY <2>2, AppendProperties DEF TranscriptTypes
  <2>5. \A j \in DOMAIN stack' : stack'[j] # <<>> /\ stack'[j][1] = 0
    BY <1>1, <2>1, <2>3, LenProperties
  <2> QED
    BY <1>1, <2>2, <2>3, <2>4, <2>5 DEF StackInv
<1>3. stack # <<>> => /\ Front(stack) \in Seq(Ids) /\ Len(Front(stack)) = Len(stack) - 1
                      /\ Len(stack) # 0
                      /\ \A j \in 1..Len(stack) - 1 : Front(stack)[j] = stack[j]
  BY <1>1, FrontIs, EmptySeq
<1>4. stack # <<>> => \A j \in DOMAIN Front(stack) : Front(stack)[j] # <<>> /\ Front(stack)[j][1] = 0
  <2> DEFINE s == Front(stack)
  <2> SUFFICES ASSUME stack # <<>>, NEW j \in DOMAIN s PROVE s[j] # <<>> /\ s[j][1] = 0
    OBVIOUS
  <2>1. s \in Seq(Ids) /\ Len(s) = Len(stack) - 1 /\ \A l \in 1..Len(stack) - 1 : s[l] = stack[l]
    BY <1>3
  <2> HIDE DEF s
  <2>2. j \in 1..Len(stack) - 1
    BY <2>1, LenProperties
  <2> QED
    BY <1>1, <2>1, <2>2
<1>5. ASSUME NEW k \in DOMAIN running, NEW suffix \in {<<>>, << 9 >>}, TaskResult(k, suffix)
      PROVE  StackInv' /\ stack' \in Seq(Ids)
  <2> DEFINE id == IF style = "none" THEN <<>> ELSE TaskId[running[k]] \o suffix
  <2>1. /\ running' = RemoveAt(running, k) /\ style' = style /\ names' = names
        /\ nested' = (nested /\ k = Len(running))
        /\ stack' = PopForResult(id)
    BY <1>5 DEF TaskResult, Happens
  <2>2. Len(running') = Len(running) - 1 /\ Len(running) # 0
    BY <2>1, RunningLess, LenProperties DEF TranscriptTypes
  <2>3. id \in Ids /\ (id # <<>> => id[1] = 1)
    <3>1. running[k] \in DOMAIN TaskId
      <4>1. running[k] \in 1..tasks /\ tasks \in 0..Len(TaskId)
        BY DEF TranscriptTypes, ToSet
      <4> QED
        BY <4>1, TranscriptAssumption, LenProperties
    <3>2. <<>> \in Ids
      BY EmptySeq DEF Ids
    <3> QED
      BY <3>1, <3>2, SuffixIs
  <2> HIDE DEF id
  <2>4. stack' = IF stack # <<>> THEN Front(stack) ELSE stack
    BY <2>1, <2>3, MarkerPops
  <2>5. CASE stack # <<>>
    <3>1. stack' = Front(stack)
      BY <2>4, <2>5
    <3>2. stack' \in Seq(Ids) /\ Len(stack') = Len(stack) - 1
      BY <1>3, <2>5, <3>1
    <3>3. \A j \in DOMAIN stack' : stack'[j] # <<>> /\ stack'[j][1] = 0
      BY <1>4, <2>5, <3>1
    <3>4. Len(stack') <= Len(running') /\ (nested' => Len(stack') = Len(running'))
      <4>1. nested' => nested
        BY <2>1
      <4>2. Len(running') = Len(running) - 1 /\ Len(stack') = Len(stack) - 1
        BY <2>2, <3>2
      <4>3. Len(stack') <= Len(running')
        <5> DEFINE a == Len(stack)
                   b == Len(running)
        <5>1. a \in Nat /\ b \in Nat /\ a <= b
          BY <1>1
        <5>2. Len(running') = b - 1 /\ Len(stack') = a - 1
          BY <4>2
        <5> HIDE DEF a, b
        <5> QED
          BY <5>1, <5>2
      <4>4. ASSUME nested' PROVE Len(stack') = Len(running')
        BY <1>1, <4>1, <4>2, <4>4
      <4> QED
        BY <4>3, <4>4
    <3> QED
      BY <1>1, <2>1, <3>2, <3>3, <3>4 DEF StackInv
  <2>6. CASE stack = <<>>
    <3>1. Len(stack) = 0
      BY <2>6, EmptySeq
    <3>2. ~nested
      BY <1>1, <2>2, <3>1
    <3> QED
      BY <1>1, <2>1, <2>2, <2>4, <2>6, <3>1, <3>2 DEF StackInv
  <2> QED
    BY <2>5, <2>6
<1>6. CASE ToolResult
  <2> DEFINE id == IF style = "none" THEN <<>> ELSE <<2, 1>>
  <2>1. /\ running' = running /\ style' = style /\ names' = names
        /\ nested' = (nested /\ (style = "none" => running = <<>>))
        /\ stack' = PopForResult(id)
    BY <1>6 DEF ToolResult, Happens
  <2>2. id \in Ids /\ (id # <<>> => id[1] = 2) /\ (id = <<>> <=> style = "none")
    BY EmptySeq DEF Ids
  <2> HIDE DEF id
  <2>3. stack' = IF stack # <<>> /\ style = "none" THEN Front(stack) ELSE stack
    BY <2>1, <2>2, MarkerPops
  <2>4. CASE stack # <<>> /\ style = "none"
    <3>1. running # <<>>
      <4>1. Len(running) # 0
        BY <1>1, <1>3, <2>4
      <4> QED
        BY <4>1, EmptySeq
    <3>2. stack' = Front(stack) /\ ~nested'
      BY <2>1, <2>3, <2>4, <3>1
    <3>3. stack' \in Seq(Ids) /\ Len(stack') = Len(stack) - 1
      BY <1>3, <2>4, <3>2
    <3>4. \A j \in DOMAIN stack' : stack'[j] # <<>> /\ stack'[j][1] = 0
      BY <1>4, <2>4, <3>2
    <3>5. Len(stack') <= Len(running')
      BY <1>1, <2>1, <3>3
    <3> QED
      BY <1>1, <2>1, <3>2, <3>3, <3>4, <3>5 DEF StackInv
  <2>5. CASE ~(stack # <<>> /\ style = "none")
    BY <1>1, <2>1, <2>3, <2>5 DEF StackInv
  <2> QED
    BY <2>4, <2>5
<1> QED
  BY <1>2, <1>5, <1>6

-----------------------------------------------------------------------------
(* The stack at every step. *)

\* Outside all Tasks the stack is empty, and while the results come innermost
\* first it is empty only there.
LEMMA StackSays ==
    ASSUME TranscriptTypes, StackInv
    PROVE  /\ running = <<>> => stack = <<>>
           /\ nested /\ stack = <<>> => running = <<>>
<1>1. Len(stack) \in Nat /\ Len(running) \in Nat /\ DOMAIN stack = 1..Len(stack)
      /\ (Len(stack) = 0 <=> stack = <<>>) /\ (Len(running) = 0 <=> running = <<>>)
  BY LenProperties, EmptySeq DEF TranscriptTypes
<1>2. CASE style = "all"
  <2>1. running = <<>> => stack = <<>>
    <3> SUFFICES ASSUME running = <<>> PROVE DOMAIN stack = {}
      BY <1>1
    <3>1. PICK f : f \in [DOMAIN stack -> ToSet(running)]
      BY <1>2 DEF StackInv, WaitsFor
    <3> QED
      BY <3>1, QueueEmpty
  <2>2. nested => Len(stack) = Len(running)
    BY <1>2 DEF StackInv
  <2> QED
    BY <1>1, <2>1, <2>2
<1>3. CASE style # "all"
  <2>1. Len(stack) <= Len(running) /\ (nested => Len(stack) = Len(running))
    BY <1>3 DEF StackInv
  <2> QED
    BY <1>1, <2>1
<1> QED
  BY <1>2, <1>3

LEMMA StackStays ==
    ASSUME StackInv, style' = style, stack' = stack, running' = running, tasks' = tasks,
           nested' = nested, style # "all" => names' = names
    PROVE  StackInv'
  BY DEF StackInv

LEMMA StackStep ==
    ASSUME TranscriptTypes, StackInv, TranscriptNext
    PROVE  StackInv' /\ stack' \in Seq(Ids)
<1> DEFINE Good == StackInv' /\ stack' \in Seq(Ids)
<1>1. stack \in Seq(Ids)
  BY DEF TranscriptTypes
<1>2. ASSUME NEW i \in Index \cup {-1}, StartTask(i) PROVE Good
  BY <1>2, TaskPushes, MarkerStep
<1>3. ASSUME NEW k \in DOMAIN running, NEW suffix \in {<<>>, << 9 >>}, TaskResult(k, suffix) PROVE Good
  BY <1>3, TaskPops, MarkerStep
<1>4. CASE ToolResult
  <2>1. style = "all" => stack' = stack /\ nested' = nested
    BY <1>4, ToolPopsNothing
  <2>2. style' = style /\ running' = running /\ tasks' = tasks /\ names' = names
    BY <1>4 DEF ToolResult, Happens
  <2> QED
    BY <1>1, <1>4, <2>1, <2>2, StackStays, MarkerStep
<1>5. ASSUME style' = style, stack' = stack, running' = running, tasks' = tasks,
             nested' = nested, style # "all" => names' = names
      PROVE  Good
  BY <1>1, <1>5, StackStays
<1>6. ASSUME NEW kind, Chunk(kind) PROVE Good
  BY <1>5, <1>6 DEF Chunk, Happens
<1>7. ASSUME NEW kind, NEW i \in Index, StartBlock(kind, i) \/ Delta(kind, i) PROVE Good
  BY <1>5, <1>7 DEF StartBlock, Delta, Happens
<1>8. ASSUME NEW i \in Index, StopBlock(i) PROVE Good
  BY <1>5, <1>8 DEF StopBlock, Happens
<1>9. ASSUME NEW i, StartTool(i) PROVE Good
  <2>1. style # "all" => names' = names
    BY <1>9 DEF StartTool, Known, CallId
  <2> QED
    BY <1>5, <1>9, <2>1 DEF StartTool, Happens
<1>10. ASSUME NEW code, Complete(code) PROVE Good
  BY <1>5, <1>10 DEF Complete
<1> QED
  BY <1>2, <1>3, <1>4, <1>6, <1>7, <1>8, <1>9, <1>10 DEF TranscriptNext

-----------------------------------------------------------------------------
(* What is shown. *)

SegmentKind == {"text", "thinking", "subagent", "tool_call", "error"}

Segments == Seq([kind : SegmentKind, parts : Seq(Nat)])

LEMMA PlaceIs ==
    ASSUME NEW s, NEW p
    PROVE  p \in Places(s) <=> \E i \in DOMAIN s : \E k \in DOMAIN s[i].parts : p = <<i, k>>
  BY DEF Places

\* Nothing is added to what is shown, or only n.
Still(s, t) ==
    /\ Places(t) = Places(s)
    /\ \A p \in Places(s) : Part(t, p) = Part(s, p)

Gains(s, t, n) ==
    \E p : /\ p \notin Places(s)
           /\ Places(t) = Places(s) \cup {p}
           /\ Part(t, p) = n
           /\ \A q \in Places(s) : Part(t, q) = Part(s, q)

\* What a new segment adds.
LEMMA SegmentAdded ==
    ASSUME NEW s \in Segments, NEW kind \in SegmentKind, NEW parts \in Seq(Nat)
    PROVE  LET t == Append(s, Segment(kind, parts))
               m == Len(s) + 1
           IN  /\ t \in Segments /\ Len(t) = m /\ m \in DOMAIN t /\ DOMAIN s \subseteq DOMAIN t
               /\ Places(t) = Places(s) \cup {<<m, k>> : k \in DOMAIN parts}
               /\ \A p \in Places(s) : Part(t, p) = Part(s, p)
               /\ \A k \in DOMAIN parts : <<m, k>> \notin Places(s) /\ Part(t, <<m, k>>) = parts[k]
<1> DEFINE seg == Segment(kind, parts)
           t == Append(s, seg)
           m == Len(s) + 1
<1>1. seg \in [kind : SegmentKind, parts : Seq(Nat)] /\ seg.parts = parts
  BY DEF Segment
<1> HIDE DEF seg
<1>2. /\ t \in Segments /\ Len(t) = m /\ Len(s) \in Nat
      /\ \A i \in 1..Len(s) : t[i] = s[i]
      /\ t[m] = seg
  BY <1>1, AppendProperties, LenProperties DEF Segments
<1>3. DOMAIN t = 1..m /\ DOMAIN s = 1..Len(s)
  BY <1>2, LenProperties DEF Segments
<1> HIDE DEF t
<1>4. m \notin DOMAIN s /\ DOMAIN t = DOMAIN s \cup {m} /\ \A i \in DOMAIN s : t[i] = s[i]
  BY <1>2, <1>3
<1> HIDE DEF m
<1>5. ASSUME NEW p
      PROVE  p \in Places(t) <=> p \in Places(s) \/ \E k \in DOMAIN parts : p = <<m, k>>
  <2>1. (\E i \in DOMAIN t : \E k \in DOMAIN t[i].parts : p = <<i, k>>)
        <=> \/ \E i \in DOMAIN s : \E k \in DOMAIN s[i].parts : p = <<i, k>>
            \/ \E k \in DOMAIN parts : p = <<m, k>>
    BY <1>1, <1>2, <1>4
  <2> QED
    BY <2>1, PlaceIs
<1>6. Places(t) = Places(s) \cup {<<m, k>> : k \in DOMAIN parts}
  BY <1>5
<1>7. ASSUME NEW p \in Places(s) PROVE Part(t, p) = Part(s, p)
  <2>1. PICK i \in DOMAIN s : \E k \in DOMAIN s[i].parts : p = <<i, k>>
    BY PlaceIs
  <2> QED
    BY <1>4, <2>1 DEF Part
<1>8. ASSUME NEW k \in DOMAIN parts PROVE <<m, k>> \notin Places(s) /\ Part(t, <<m, k>>) = parts[k]
  <2>1. <<m, k>> \notin Places(s)
    BY <1>4, PlaceIs
  <2> QED
    BY <1>1, <1>2, <2>1 DEF Part
<1> QED
  BY <1>2, <1>3, <1>4, <1>6, <1>7, <1>8 DEF t, m, seg

LEMMA EmptySegmentAdded ==
    ASSUME NEW s \in Segments, NEW kind \in SegmentKind
    PROVE  LET t == Append(s, Segment(kind, <<>>))
           IN  t \in Segments /\ Len(t) \in DOMAIN t /\ DOMAIN s \subseteq DOMAIN t /\ Still(s, t)
<1> DEFINE t == Append(s, Segment(kind, <<>>))
           m == Len(s) + 1
<1>1. <<>> \in Seq(Nat) /\ DOMAIN <<>> = {}
  BY EmptySeq
<1>2. /\ t \in Segments /\ Len(t) = m /\ m \in DOMAIN t /\ DOMAIN s \subseteq DOMAIN t
      /\ Places(t) = Places(s) \cup {<<m, k>> : k \in DOMAIN <<>>}
      /\ \A p \in Places(s) : Part(t, p) = Part(s, p)
  BY <1>1, SegmentAdded
<1> HIDE DEF t
<1>3. Places(t) = Places(s)
  BY <1>1, <1>2
<1> QED
  BY <1>2, <1>3 DEF Still, t

LEMMA PartSegmentAdded ==
    ASSUME NEW s \in Segments, NEW kind \in SegmentKind, NEW n \in Nat
    PROVE  LET t == Append(s, Segment(kind, <<n>>))
           IN  t \in Segments /\ Len(t) \in DOMAIN t /\ DOMAIN s \subseteq DOMAIN t /\ Gains(s, t, n)
<1> DEFINE parts == <<n>>
           t == Append(s, Segment(kind, parts))
           m == Len(s) + 1
<1>1. parts \in Seq(Nat) /\ DOMAIN parts = {1} /\ parts[1] = n
  OBVIOUS
<1> HIDE DEF parts
<1>2. /\ t \in Segments /\ Len(t) = m /\ m \in DOMAIN t /\ DOMAIN s \subseteq DOMAIN t
      /\ Places(t) = Places(s) \cup {<<m, k>> : k \in DOMAIN parts}
      /\ \A p \in Places(s) : Part(t, p) = Part(s, p)
      /\ \A k \in DOMAIN parts : <<m, k>> \notin Places(s) /\ Part(t, <<m, k>>) = parts[k]
  BY <1>1, SegmentAdded
<1> HIDE DEF t, m
<1>3. Places(t) = Places(s) \cup {<<m, 1>>} /\ <<m, 1>> \notin Places(s) /\ Part(t, <<m, 1>>) = n
  BY <1>1, <1>2
<1>4. Gains(s, t, n)
  BY <1>2, <1>3 DEF Gains
<1> QED
  BY <1>2, <1>4 DEF t, parts

\* An open segment goes on.
LEMMA PartAdded ==
    ASSUME NEW s \in Segments, NEW i \in DOMAIN s, NEW n \in Nat
    PROVE  LET t == [s EXCEPT ![i].parts = Append(@, n)]
           IN  t \in Segments /\ DOMAIN t = DOMAIN s /\ Gains(s, t, n)
<1> DEFINE parts == s[i].parts
           more == Append(parts, n)
           seg == [s[i] EXCEPT !.parts = more]
           t == [s EXCEPT ![i] = seg]
           k == Len(parts) + 1
<1>1. s[i] \in [kind : SegmentKind, parts : Seq(Nat)] /\ DOMAIN s = 1..Len(s)
  BY LenProperties, ElementOfSeq DEF Segments
<1>2. parts \in Seq(Nat)
  BY <1>1
<1>3. /\ more \in Seq(Nat) /\ Len(more) = k /\ Len(parts) \in Nat
      /\ \A j \in 1..Len(parts) : more[j] = parts[j]
      /\ more[k] = n
  BY <1>2, AppendProperties, LenProperties
<1>4. DOMAIN more = DOMAIN parts \cup {k} /\ k \notin DOMAIN parts
      /\ \A j \in DOMAIN parts : more[j] = parts[j]
  <2>1. DOMAIN more = 1..k /\ DOMAIN parts = 1..Len(parts)
    BY <1>2, <1>3, LenProperties
  <2> HIDE DEF more, parts
  <2> QED
    BY <1>3, <2>1
<1> HIDE DEF more
<1>5. seg \in [kind : SegmentKind, parts : Seq(Nat)] /\ seg.parts = more
  BY <1>1, <1>3
<1> HIDE DEF seg
<1>6. t \in Segments /\ DOMAIN t = DOMAIN s /\ t[i] = seg /\ \A j \in DOMAIN s : j # i => t[j] = s[j]
  BY <1>5, ExceptSeq DEF Segments
<1> HIDE DEF t, k
<1>7. ASSUME NEW p PROVE p \in Places(t) <=> p \in Places(s) \/ p = <<i, k>>
  <2>1. (\E j \in DOMAIN t : \E l \in DOMAIN t[j].parts : p = <<j, l>>)
        <=> (\E j \in DOMAIN s : \E l \in DOMAIN s[j].parts : p = <<j, l>>) \/ p = <<i, k>>
    BY <1>4, <1>5, <1>6
  <2> QED
    BY <2>1, PlaceIs
<1>8. <<i, k>> \notin Places(s)
  BY <1>4, PlaceIs
<1>9. Part(t, <<i, k>>) = n
  BY <1>3, <1>5, <1>6 DEF Part
<1>10. ASSUME NEW p \in Places(s) PROVE Part(t, p) = Part(s, p)
  <2>1. PICK j \in DOMAIN s : \E l \in DOMAIN s[j].parts : p = <<j, l>>
    BY PlaceIs
  <2>2. PICK l \in DOMAIN s[j].parts : p = <<j, l>>
    BY <2>1
  <2>3. t[j].parts[l] = s[j].parts[l]
    BY <1>4, <1>5, <1>6
  <2> QED
    BY <2>2, <2>3 DEF Part
<1>11. Gains(s, t, n)
  <2>1. Places(t) = Places(s) \cup {<<i, k>>}
    BY <1>7
  <2> QED
    BY <2>1, <1>8, <1>9, <1>10 DEF Gains
<1>12. [s EXCEPT ![i].parts = Append(@, n)] = t
  BY DEF t, seg, more
<1> QED
  BY <1>6, <1>11, <1>12

\* Where nothing is added, and where what is added was said outside all Tasks or
\* while the results had come out of order, what is shown stays right.
LEMMA StillKeeps ==
    ASSUME TranscriptInv, Still(segments, segments'), outer' = outer, nested' => nested,
           events' \in Nat, events <= events'
    PROVE  ShownIsOuter' /\ \A p \in Places(segments') : Part(segments', p) \in 0..events'
<1>1. events \in Nat /\ \A p \in Places(segments) : Part(segments, p) \in 0..events
  BY DEF TranscriptInv, TranscriptTypes
<1>2. \A p \in Places(segments') : Part(segments', p) \in 0..events'
  BY <1>1 DEF Still
<1>3. ShownIsOuter'
  BY DEF ShownIsOuter, Still, TranscriptInv
<1> QED
  BY <1>2, <1>3

LEMMA GainKeeps ==
    ASSUME TranscriptInv, NEW n, n = events + 1, events' = n, Gains(segments, segments', n),
           stack = <<>>, Said(n), nested' = nested
    PROVE  ShownIsOuter' /\ \A p \in Places(segments') : Part(segments', p) \in 0..events'
<1>1. /\ events \in Nat /\ \A p \in Places(segments) : Part(segments, p) \in 0..events
      /\ outer \subseteq 1..events /\ nested \in BOOLEAN
  BY DEF TranscriptInv, TranscriptTypes
<1>2. PICK p : /\ p \notin Places(segments)
               /\ Places(segments') = Places(segments) \cup {p}
               /\ Part(segments', p) = n
               /\ \A q \in Places(segments) : Part(segments', q) = Part(segments, q)
  BY DEF Gains
<1>3. outer \subseteq outer' /\ outer' \subseteq outer \cup {n} /\ (nested => n \in outer')
  <2>1. nested => running = <<>>
    BY StackSays DEF TranscriptInv
  <2> QED
    BY <2>1 DEF Said
<1>4. \A q \in Places(segments') : Part(segments', q) \in 0..events'
  BY <1>1, <1>2
<1>5. \A a \in outer' : \E q \in Places(segments') : Part(segments', q) = a
  <2>1. \A a \in outer : \E q \in Places(segments) : Part(segments, q) = a
    BY DEF TranscriptInv, ShownIsOuter
  <2> QED
    BY <1>2, <1>3, <2>1
<1>6. \A a, b \in Places(segments') : Part(segments', a) = Part(segments', b) => a = b
  <2>1. \A a, b \in Places(segments) : Part(segments, a) = Part(segments, b) => a = b
    BY DEF TranscriptInv, ShownIsOuter
  <2>2. \A a \in Places(segments) : Part(segments, a) # n
    BY <1>1
  <2> QED
    BY <1>2, <2>1, <2>2
<1>7. nested' => \A q \in Places(segments') : Part(segments', q) \in outer' \cup {0}
  <2>1. nested => \A q \in Places(segments) : Part(segments, q) \in outer \cup {0}
    BY DEF TranscriptInv, ShownIsOuter
  <2> QED
    BY <1>2, <1>3, <2>1
<1> QED
  BY <1>4, <1>5, <1>6, <1>7 DEF ShownIsOuter

LEMMA SameStill ==
    ASSUME NEW s PROVE Still(s, s)
  BY DEF Still

\* The parts of the state other than the stack, at each step.
ShownInv ==
    /\ segments \in Segments
    /\ open \in [Index -> [kind : {"none", "text", "thinking", "tool"}, seg : Nat]]
    /\ \A i \in Index : open[i].kind \in {"text", "thinking"} => open[i].seg \in DOMAIN segments
    /\ events = 0 => \A i \in Index : open[i].kind = "none"
    /\ outer \subseteq 1..events
    /\ events \in Nat
    /\ \A p \in Places(segments) : Part(segments, p) \in 0..events
    /\ ShownIsOuter

LEMMA LenOfSegments ==
    ASSUME NEW s \in Segments
    PROVE  Len(s) \in Nat /\ DOMAIN s = 1..Len(s)
  BY LenProperties DEF Segments

LEMMA StepShown ==
    ASSUME TranscriptInv, TranscriptNext
    PROVE  ShownInv'
<1>1. ShownInv
  BY DEF TranscriptInv, TranscriptTypes, ShownInv, Segments, SegmentKind
<1>2. events + 1 \in Nat /\ events <= events + 1 /\ 1..events \subseteq 1..events + 1
      /\ events + 1 \in 1..events + 1
  BY <1>1 DEF ShownInv
<1>3. ASSUME Still(segments, segments'), segments' \in Segments, DOMAIN segments \subseteq DOMAIN segments',
             outer' = outer, nested' => nested, events' \in {events, events + 1},
             events' = events => open' = open,
             open' \in [Index -> [kind : {"none", "text", "thinking", "tool"}, seg : Nat]],
             \A i \in Index : open'[i].kind \in {"text", "thinking"} =>
                 open'[i] = open[i] \/ open'[i].seg \in DOMAIN segments'
      PROVE  ShownInv'
  <2>1. events' \in Nat /\ events <= events' /\ 1..events \subseteq 1..events'
    BY <1>1, <1>2, <1>3 DEF ShownInv
  <2>2. ShownIsOuter' /\ \A p \in Places(segments') : Part(segments', p) \in 0..events'
    BY <1>3, <2>1, StillKeeps
  <2>3. outer' \subseteq 1..events'
    BY <1>1, <1>3, <2>1 DEF ShownInv
  <2>4. \A i \in Index : open'[i].kind \in {"text", "thinking"} => open'[i].seg \in DOMAIN segments'
    BY <1>1, <1>3 DEF ShownInv
  <2>5. events' = 0 => \A i \in Index : open'[i].kind = "none"
    BY <1>1, <1>2, <1>3 DEF ShownInv
  <2> QED
    BY <1>3, <2>1, <2>2, <2>3, <2>4, <2>5 DEF ShownInv
<1>4. ASSUME stack = <<>>, Said(events'), events' = events + 1, nested' = nested,
             Gains(segments, segments', events'), segments' \in Segments,
             DOMAIN segments \subseteq DOMAIN segments',
             open' \in [Index -> [kind : {"none", "text", "thinking", "tool"}, seg : Nat]],
             \A i \in Index : open'[i].kind \in {"text", "thinking"} =>
                 open'[i] = open[i] \/ open'[i].seg \in DOMAIN segments'
      PROVE  ShownInv'
  <2>1. ShownIsOuter' /\ \A p \in Places(segments') : Part(segments', p) \in 0..events'
    BY <1>4, GainKeeps
  <2>2. outer' \subseteq 1..events'
    BY <1>1, <1>2, <1>4 DEF ShownInv, Said
  <2>3. \A i \in Index : open'[i].kind \in {"text", "thinking"} => open'[i].seg \in DOMAIN segments'
    BY <1>1, <1>4 DEF ShownInv
  <2>4. events' # 0
    BY <1>1, <1>4 DEF ShownInv
  <2> QED
    BY <1>2, <1>4, <2>1, <2>2, <2>3, <2>4 DEF ShownInv
<1>5. segments \in Segments /\ Still(segments, segments)
      /\ open \in [Index -> [kind : {"none", "text", "thinking", "tool"}, seg : Nat]]
      /\ nested \in BOOLEAN
  BY <1>1, SameStill DEF ShownInv, TranscriptInv, TranscriptTypes
<1>6. ASSUME Said(events'), stack # <<>> PROVE outer' = outer
  <2>1. running # <<>>
    BY <1>6, StackSays DEF TranscriptInv
  <2> QED
    BY <1>6, <2>1 DEF Said
<1>7. \A kind \in SegmentKind :
          LET t == Append(segments, Segment(kind, <<>>))
          IN  t \in Segments /\ Len(t) \in DOMAIN t /\ Len(t) \in Nat
              /\ DOMAIN segments \subseteq DOMAIN t /\ Still(segments, t)
  BY <1>5, EmptySegmentAdded, LenOfSegments
<1>8. \A kind \in SegmentKind :
          LET t == Append(segments, Segment(kind, <<events + 1>>))
          IN  t \in Segments /\ Len(t) \in DOMAIN t /\ Len(t) \in Nat
              /\ DOMAIN segments \subseteq DOMAIN t /\ Gains(segments, t, events + 1)
  BY <1>2, <1>5, PartSegmentAdded, LenOfSegments
<1>9. ASSUME NEW kind \in {"text", "thinking"}, Chunk(kind) PROVE ShownInv'
  <2>1. events' = events + 1 /\ open' = open /\ nested' = nested /\ Said(events')
    BY <1>9 DEF Chunk, Happens
  <2>2. CASE stack # <<>>
    <3>1. segments' = segments /\ outer' = outer
      BY <1>6, <1>9, <2>1, <2>2 DEF Chunk, InSubagent
    <3> QED
      BY <1>3, <1>5, <2>1, <3>1
  <2>3. CASE stack = <<>>
    <3>1. segments' = Append(segments, Segment(kind, <<events + 1>>)) /\ kind \in SegmentKind
      BY <1>9, <2>1, <2>3 DEF Chunk, InSubagent, SegmentKind
    <3>2. segments' \in Segments /\ DOMAIN segments \subseteq DOMAIN segments'
          /\ Gains(segments, segments', events')
      BY <1>8, <2>1, <3>1
    <3> QED
      BY <1>4, <1>5, <2>1, <2>3, <3>2
  <2> QED
    BY <2>2, <2>3
<1>10. ASSUME NEW kind \in {"text", "thinking"}, NEW i \in Index, StartBlock(kind, i) PROVE ShownInv'
  <2>1. events' = events + 1 /\ outer' = outer /\ nested' = nested
    BY <1>10 DEF StartBlock, Happens
  <2>2. CASE stack # <<>>
    <3>1. segments' = segments /\ open' = open
      BY <1>10, <2>2 DEF StartBlock, InSubagent
    <3> QED
      BY <1>3, <1>5, <2>1, <3>1
  <2>3. CASE stack = <<>>
    <3>1. segments' = Append(segments, Segment(kind, <<>>)) /\ kind \in SegmentKind
          /\ open' = [open EXCEPT ![i] = [kind |-> kind, seg |-> Len(segments')]]
      BY <1>10, <2>3 DEF StartBlock, InSubagent, SegmentKind
    <3>2. segments' \in Segments /\ DOMAIN segments \subseteq DOMAIN segments'
          /\ Still(segments, segments') /\ Len(segments') \in DOMAIN segments' /\ Len(segments') \in Nat
      BY <1>7, <3>1
    <3>3. open' \in [Index -> [kind : {"none", "text", "thinking", "tool"}, seg : Nat]]
          /\ \A j \in Index : open'[j].kind \in {"text", "thinking"} =>
                 open'[j] = open[j] \/ open'[j].seg \in DOMAIN segments'
      BY <1>5, <3>1, <3>2
    <3> QED
      BY <1>3, <2>1, <3>2, <3>3
  <2> QED
    BY <2>2, <2>3
<1>11. ASSUME NEW kind \in {"text", "thinking"}, NEW i \in Index, Delta(kind, i) PROVE ShownInv'
  <2>1. events' = events + 1 /\ nested' = nested /\ Said(events')
    BY <1>11 DEF Delta, Happens
  <2>2. CASE stack # <<>>
    <3>1. segments' = segments /\ open' = open /\ outer' = outer
      BY <1>6, <1>11, <2>1, <2>2 DEF Delta, InSubagent
    <3> QED
      BY <1>3, <1>5, <2>1, <3>1
  <2>3. CASE stack = <<>> /\ open[i].kind = kind
    <3>1. segments' = [segments EXCEPT ![open[i].seg].parts = Append(@, events')] /\ open' = open
      BY <1>11, <2>3 DEF Delta, InSubagent
    <3> DEFINE g == open[i].seg
    <3>2. g \in DOMAIN segments /\ events' \in Nat
      BY <1>1, <1>2, <2>1, <2>3 DEF ShownInv
    <3> HIDE DEF g
    <3>3. segments' \in Segments /\ DOMAIN segments' = DOMAIN segments
          /\ Gains(segments, segments', events')
      <4>1. segments' = [segments EXCEPT ![g].parts = Append(@, events')]
        BY <3>1 DEF g
      <4> QED
        BY <1>5, <3>2, <4>1, PartAdded
    <3> QED
      BY <1>4, <1>5, <2>1, <2>3, <3>1, <3>3
  <2>4. CASE stack = <<>> /\ open[i].kind # kind
    <3>1. segments' = Append(segments, Segment(kind, <<events + 1>>)) /\ kind \in SegmentKind
          /\ open' = [open EXCEPT ![i] = [kind |-> kind, seg |-> Len(segments')]]
      BY <1>11, <2>1, <2>4 DEF Delta, InSubagent, SegmentKind
    <3>2. segments' \in Segments /\ DOMAIN segments \subseteq DOMAIN segments'
          /\ Gains(segments, segments', events') /\ Len(segments') \in DOMAIN segments'
          /\ Len(segments') \in Nat
      BY <1>8, <2>1, <3>1
    <3>3. open' \in [Index -> [kind : {"none", "text", "thinking", "tool"}, seg : Nat]]
          /\ \A j \in Index : open'[j].kind \in {"text", "thinking"} =>
                 open'[j] = open[j] \/ open'[j].seg \in DOMAIN segments'
      BY <1>5, <3>1, <3>2
    <3> QED
      BY <1>4, <2>1, <2>4, <3>2, <3>3
  <2> QED
    BY <2>2, <2>3, <2>4
<1>12. ASSUME NEW i \in Index, StopBlock(i) PROVE ShownInv'
  <2>1. events' = events + 1 /\ outer' = outer /\ nested' = nested /\ segments' = segments
        /\ open' = [open EXCEPT ![i] = Closed]
    BY <1>12 DEF StopBlock, Happens
  <2>2. open' \in [Index -> [kind : {"none", "text", "thinking", "tool"}, seg : Nat]]
        /\ \A j \in Index : open'[j].kind \in {"text", "thinking"} => open'[j] = open[j]
    BY <1>5, <2>1 DEF Closed
  <2> QED
    BY <1>3, <1>5, <2>1, <2>2
<1>13. ASSUME NEW i, StartTask(i) PROVE ShownInv'
  <2>1. events' = events + 1 /\ outer' = outer /\ nested' = nested
        /\ segments' = Append(segments, Segment("subagent", <<>>))
        /\ open' = [j \in Index |-> IF j = i THEN Closed ELSE open[j]]
    BY <1>13 DEF StartTask, Happens
  <2>2. segments' \in Segments /\ DOMAIN segments \subseteq DOMAIN segments' /\ Still(segments, segments')
    BY <1>7, <2>1 DEF SegmentKind
  <2>3. open' \in [Index -> [kind : {"none", "text", "thinking", "tool"}, seg : Nat]]
        /\ \A j \in Index : open'[j].kind \in {"text", "thinking"} => open'[j] = open[j]
    BY <1>5, <2>1 DEF Closed
  <2> QED
    BY <1>3, <2>1, <2>2, <2>3
<1>14. ASSUME NEW i, StartTool(i) PROVE ShownInv'
  <2>1. events' = events + 1 /\ outer' = outer /\ nested' = nested
        /\ segments' \in {segments, Append(segments, Segment("tool_call", <<>>))}
        /\ open' = [j \in Index |->
                       IF j = i THEN [kind |-> "tool", seg |-> Len(segments')] ELSE open[j]]
    BY <1>14 DEF StartTool, Happens
  <2>2. segments' \in Segments /\ DOMAIN segments \subseteq DOMAIN segments' /\ Still(segments, segments')
        /\ Len(segments') \in Nat
    BY <1>5, <1>7, <2>1, LenOfSegments DEF SegmentKind
  <2>3. open' \in [Index -> [kind : {"none", "text", "thinking", "tool"}, seg : Nat]]
        /\ \A j \in Index : open'[j].kind \in {"text", "thinking"} => open'[j] = open[j]
    BY <1>5, <2>1, <2>2
  <2> QED
    BY <1>3, <2>1, <2>2, <2>3
<1>15. ASSUME NEW k \in DOMAIN running, NEW suffix, TaskResult(k, suffix) PROVE ShownInv'
  <2>1. events' = events + 1 /\ outer' = outer /\ (nested' => nested) /\ segments' = segments
        /\ open' = open
    BY <1>15 DEF TaskResult, Happens
  <2> QED
    BY <1>3, <1>5, <2>1
<1>16. CASE ToolResult
  <2>1. events' = events + 1 /\ outer' = outer /\ (nested' => nested) /\ segments' = segments
        /\ open' = open
    BY <1>16 DEF ToolResult, Happens
  <2> QED
    BY <1>3, <1>5, <2>1
<1>17. ASSUME NEW code, Complete(code) PROVE ShownInv'
  <2>1. /\ events' = events /\ outer' = outer /\ nested' = nested /\ open' = open
        /\ segments' = IF code # 0 THEN Append(segments, Segment("error", <<>>))
                       ELSE IF events = 0 THEN <<Segment("text", <<0>>)>> ELSE segments
    BY <1>17 DEF Complete
  <2>2. CASE code # 0
    <3>1. segments' \in Segments /\ DOMAIN segments \subseteq DOMAIN segments' /\ Still(segments, segments')
      BY <1>7, <2>1, <2>2 DEF SegmentKind
    <3> QED
      BY <1>3, <1>5, <2>1, <3>1
  <2>3. CASE code = 0 /\ events # 0
    <3>1. segments' = segments
      BY <2>1, <2>3
    <3> QED
      BY <1>3, <1>5, <2>1, <3>1
  <2>4. CASE code = 0 /\ events = 0
    <3> DEFINE done == Segment("text", <<0>>)
    <3>1. segments' = <<done>> /\ outer' = {} /\ events' = 0
      BY <1>1, <2>1, <2>4 DEF ShownInv
    <3>2. done \in [kind : SegmentKind, parts : Seq(Nat)] /\ done.parts = <<0>>
      BY DEF Segment, SegmentKind
    <3> HIDE DEF done
    <3>3. segments' \in Segments /\ DOMAIN segments' = {1} /\ segments'[1] = done
      BY <3>1, <3>2 DEF Segments
    <3>4. \A p : p \in Places(segments') <=> p = <<1, 1>>
      <4>1. DOMAIN done.parts = {1}
        BY <3>2
      <4> QED
        BY <3>3, <4>1, PlaceIs
    <3>5. Part(segments', <<1, 1>>) = 0
      BY <3>2, <3>3 DEF Part
    <3>6. ShownIsOuter' /\ \A p \in Places(segments') : Part(segments', p) \in 0..events'
      BY <3>1, <3>4, <3>5 DEF ShownIsOuter
    <3>7. \A i \in Index : open'[i].kind \in {"text", "thinking"} => open'[i].seg \in DOMAIN segments'
      BY <1>1, <2>1, <2>4 DEF ShownInv
    <3> QED
      BY <1>1, <1>5, <2>1, <3>1, <3>3, <3>6, <3>7 DEF ShownInv
  <2> QED
    BY <2>2, <2>3, <2>4
<1> QED
  BY <1>9, <1>10, <1>11, <1>12, <1>13, <1>14, <1>15, <1>16, <1>17 DEF TranscriptNext

LEMMA InitTranscriptInv == TranscriptInit => TranscriptInv
<1> SUFFICES ASSUME TranscriptInit PROVE TranscriptInv
  OBVIOUS
<1>1. <<>> \in Segments /\ <<>> \in Seq(Ids) /\ <<>> \in Seq(Nat)
      /\ ToSet(<<>>) = {} /\ IsInjective(<<>>) /\ DOMAIN <<>> = {} /\ Len(<<>>) = 0
  BY EmptySeq, QueueEmpty DEF Segments
<1>2. TranscriptTypes
  BY <1>1, TranscriptAssumption, LenProperties
     DEF TranscriptInit, TranscriptTypes, Segments, SegmentKind, Closed
<1>3. StackInv
  <2>1. WaitsFor(<<>>, {}, <<>>)
    <3>1. <<>> \in [{} -> {}]
      BY <1>1
    <3> QED
      BY <1>1, <3>1 DEF WaitsFor
  <2>2. \E f : WaitsFor(stack, ToSet(running), f)
    BY <1>1, <2>1 DEF TranscriptInit
  <2> QED
    BY <1>1, <2>2 DEF TranscriptInit, StackInv
<1>4. Places(segments) = {}
  BY <1>1, PlaceIs DEF TranscriptInit
<1> QED
  BY <1>2, <1>3, <1>4 DEF TranscriptInit, TranscriptInv, ShownIsOuter

\* The Tasks that run, at each step.
LEMMA StepRunning ==
    ASSUME TranscriptTypes, TranscriptNext
    PROVE  /\ running' \in Seq(Nat) /\ ToSet(running') \subseteq 1..tasks' /\ IsInjective(running')
           /\ tasks' \in 0..Len(TaskId)
           /\ style' \in {"all", "none", "results"} /\ nested' \in BOOLEAN
<1> DEFINE Good == /\ running' \in Seq(Nat) /\ ToSet(running') \subseteq 1..tasks' /\ IsInjective(running')
                   /\ tasks' \in 0..Len(TaskId)
                   /\ style' \in {"all", "none", "results"} /\ nested' \in BOOLEAN
<1>1. ASSUME running' = running, tasks' = tasks, style' = style, nested' \in BOOLEAN PROVE Good
  BY <1>1 DEF TranscriptTypes
<1>2. nested \in BOOLEAN
  BY DEF TranscriptTypes
<1>3. ASSUME NEW i, StartTask(i) PROVE Good
  <2> DEFINE n == tasks + 1
  <2>1. /\ tasks' = n /\ running' = Append(running, n) /\ style' = style /\ nested' = nested
        /\ tasks < Len(TaskId)
    BY <1>3 DEF StartTask, Happens
  <2>2. n \in Nat /\ n \in 0..Len(TaskId) /\ n \in 1..n /\ 1..tasks \subseteq 1..n /\ n \notin 1..tasks
    BY <2>1, TranscriptAssumption, LenProperties DEF TranscriptTypes
  <2> HIDE DEF n
  <2>3. /\ Append(running, n) \in Seq(Nat)
        /\ ToSet(Append(running, n)) = ToSet(running) \cup {n}
        /\ IsInjective(Append(running, n))
    <3>1. running \in Seq(Nat) /\ IsInjective(running) /\ n \in Nat /\ n \notin ToSet(running)
      BY <2>2 DEF TranscriptTypes
    <3> QED
      BY <3>1, QueueAppend
  <2> QED
    BY <1>2, <2>1, <2>2, <2>3 DEF TranscriptTypes
<1>4. ASSUME NEW k \in DOMAIN running, NEW suffix, TaskResult(k, suffix) PROVE Good
  <2>1. running' = RemoveAt(running, k) /\ tasks' = tasks /\ style' = style /\ nested' \in BOOLEAN
    BY <1>2, <1>4 DEF TaskResult, Happens
  <2> QED
    BY <2>1, RunningLess DEF TranscriptTypes
<1>5. ASSUME NEW kind, Chunk(kind) PROVE Good
  BY <1>1, <1>2, <1>5 DEF Chunk, Happens
<1>6. ASSUME NEW kind, NEW i, StartBlock(kind, i) \/ Delta(kind, i) PROVE Good
  BY <1>1, <1>2, <1>6 DEF StartBlock, Delta, Happens
<1>7. ASSUME NEW i, StopBlock(i) PROVE Good
  BY <1>1, <1>2, <1>7 DEF StopBlock, Happens
<1>8. ASSUME NEW i, StartTool(i) PROVE Good
  BY <1>1, <1>2, <1>8 DEF StartTool, Happens
<1>9. CASE ToolResult
  BY <1>1, <1>2, <1>9 DEF ToolResult, Happens
<1>10. ASSUME NEW code, Complete(code) PROVE Good
  BY <1>1, <1>2, <1>10 DEF Complete
<1> QED
  BY <1>3, <1>4, <1>5, <1>6, <1>7, <1>8, <1>9, <1>10 DEF TranscriptNext

LEMMA NextTranscriptInv == TranscriptInv /\ [TranscriptNext]_transcriptVars => TranscriptInv'
<1>1. CASE TranscriptInv /\ TranscriptNext
  <2>1. TranscriptTypes /\ StackInv
    BY <1>1 DEF TranscriptInv
  <2>2. StackInv' /\ stack' \in Seq(Ids)
    BY <1>1, <2>1, StackStep
  <2>3. ShownInv'
    BY <1>1, StepShown
  <2>4. /\ running' \in Seq(Nat) /\ ToSet(running') \subseteq 1..tasks' /\ IsInjective(running')
        /\ tasks' \in 0..Len(TaskId)
        /\ style' \in {"all", "none", "results"} /\ nested' \in BOOLEAN
    BY <1>1, <2>1, StepRunning
  <2> QED
    BY <2>2, <2>3, <2>4 DEF TranscriptInv, TranscriptTypes, ShownInv, Segments, SegmentKind
<1>2. CASE TranscriptInv /\ UNCHANGED transcriptVars
  <2>1. /\ style' = style /\ stack' = stack /\ running' = running /\ tasks' = tasks
        /\ nested' = nested /\ names' = names
        /\ segments' = segments /\ open' = open /\ outer' = outer /\ events' = events
    BY <1>2 DEF transcriptVars
  <2>2. StackInv'
    BY <1>2, <2>1, StackStays DEF TranscriptInv
  <2>3. TranscriptTypes'
    BY <1>2, <2>1 DEF TranscriptInv, TranscriptTypes
  <2>4. /\ ShownIsOuter'
        /\ \A p \in Places(segments') : Part(segments', p) \in 0..events'
    BY <1>2, <2>1 DEF TranscriptInv, ShownIsOuter
  <2> QED
    BY <2>2, <2>3, <2>4 DEF TranscriptInv
<1> QED
  BY <1>1, <1>2

\* However many Tasks a turn runs inside each other and in whichever order their
\* results come, no text said outside them is swallowed or shown twice, and none
\* said inside is shown while they end innermost first (transcript.py: apply,
\* _subagent_pop).
THEOREM ShowsOuter == TranscriptInit /\ [][TranscriptNext]_transcriptVars => []ShownIsOuter
<1>1. TranscriptInv => ShownIsOuter
  BY DEF TranscriptInv
<1> QED
  BY <1>1, InitTranscriptInv, NextTranscriptInv, PTL

-----------------------------------------------------------------------------
(* The conversation an OpenAI upstream reads. *)

ChatBlock ==
    [kind : {"text", "thinking", "redacted_thinking", "tool_use", "image", "tool_result", "top"},
     n : Nat]

OpenAIMessage ==
    [role : {"assistant", "user", "tool"}, content : Seq(ChatBlock), reasoning : Seq(ChatBlock),
     calls : Seq(ChatBlock)]

\* What must not be lost: S below stands for this set.
Replayable == {b \in ChatBlock : b.kind \in ReplayedKind}

\* The message says the blocks X of S, each once.
Says(m, X, S) ==
    /\ m \in OpenAIMessage
    /\ BlocksOf(m) \in Seq(ChatBlock) /\ IsInjective(BlocksOf(m))
    /\ \A x \in S : x \in ToSet(BlocksOf(m)) <=> x \in X

\* The messages say the blocks X of S, each once; and the calls A may still be
\* answered.
Reads(ms, X, A, S) ==
    /\ ms \in Seq(OpenAIMessage)
    /\ \A i \in DOMAIN ms : BlocksOf(ms[i]) \in Seq(ChatBlock) /\ IsInjective(BlocksOf(ms[i]))
    /\ \A x \in S : x \in X <=> \E i \in DOMAIN ms : x \in ToSet(BlocksOf(ms[i]))
    /\ \A i, j \in DOMAIN ms : \A x \in S :
          x \in ToSet(BlocksOf(ms[i])) /\ x \in ToSet(BlocksOf(ms[j])) => i = j
    /\ AnsweredInTurn(ms)
    /\ A \subseteq CallsBehind(ms, Len(ms))

CallsOf(m) == {b.n : b \in ToSet(m.calls)}

LEMMA CallsAppend ==
    ASSUME NEW ms \in Seq(OpenAIMessage), NEW m \in OpenAIMessage
    PROVE  /\ Append(ms, m) \in Seq(OpenAIMessage) /\ Len(Append(ms, m)) = Len(ms) + 1
           /\ Len(ms) \in Nat
           /\ \A i \in 0..Len(ms) : CallsBehind(Append(ms, m), i) = CallsBehind(ms, i)
           /\ CallsOf(m) \subseteq CallsBehind(Append(ms, m), Len(ms) + 1)
           /\ m.role # "assistant" =>
                  CallsBehind(ms, Len(ms)) \subseteq CallsBehind(Append(ms, m), Len(ms) + 1)
<1> DEFINE s == Append(ms, m)
           n == Len(ms)
<1>1. /\ s \in Seq(OpenAIMessage) /\ Len(s) = n + 1 /\ n \in Nat
      /\ \A i \in 1..n : s[i] = ms[i]
      /\ s[n + 1] = m
  BY AppendProperties, LenProperties
<1> HIDE DEF s, n
<1>2. ASSUME NEW i \in 0..n PROVE CallsBehind(s, i) = CallsBehind(ms, i)
  <2>1. \A j \in 1..i : j \in 1..n /\ s[j] = ms[j]
    BY <1>1
  <2>2. \A j \in 1..i : \A k \in j + 1..i : k \in 1..i
    BY <1>1
  <2>3. {j \in 1..i : \A k \in j + 1..i : s[k].role # "assistant"} =
           {j \in 1..i : \A k \in j + 1..i : ms[k].role # "assistant"}
    BY <2>1, <2>2
  <2> DEFINE J == {j \in 1..i : \A k \in j + 1..i : ms[k].role # "assistant"}
  <2>4. J \subseteq 1..i
    OBVIOUS
  <2> HIDE DEF J
  <2>5. \A j \in J : {b.n : b \in ToSet(s[j].calls)} = {b.n : b \in ToSet(ms[j].calls)}
    BY <2>1, <2>4
  <2>6. UNION {{b.n : b \in ToSet(s[j].calls)} : j \in J} =
           UNION {{b.n : b \in ToSet(ms[j].calls)} : j \in J}
    BY <2>5
  <2> QED
    BY <2>3, <2>6 DEF CallsBehind, J
<1>3. ASSUME NEW i \in 1..n + 1, \A k \in i + 1..n + 1 : s[k].role # "assistant"
      PROVE  CallsOf(s[i]) \subseteq CallsBehind(s, n + 1)
  <2> DEFINE J == {j \in 1..n + 1 : \A k \in j + 1..n + 1 : s[k].role # "assistant"}
  <2>1. i \in J
    BY <1>3
  <2> HIDE DEF J
  <2> QED
    BY <2>1 DEF CallsBehind, J, CallsOf
<1>4. CallsOf(m) \subseteq CallsBehind(s, n + 1)
  BY <1>1, <1>3
<1>5. ASSUME m.role # "assistant" PROVE CallsBehind(ms, n) \subseteq CallsBehind(s, n + 1)
  <2> SUFFICES ASSUME NEW c \in CallsBehind(ms, n) PROVE c \in CallsBehind(s, n + 1)
    OBVIOUS
  <2>1. PICK i \in 1..n : /\ \A k \in i + 1..n : ms[k].role # "assistant"
                          /\ c \in CallsOf(ms[i])
    BY DEF CallsBehind, CallsOf
  <2>2. i \in 1..n + 1 /\ s[i] = ms[i]
    BY <1>1
  <2>3. ASSUME NEW k \in i + 1..n + 1 PROVE s[k].role # "assistant"
    <3>1. CASE k = n + 1
      BY <1>1, <1>5, <3>1
    <3>2. CASE k # n + 1
      <4>1. k \in i + 1..n /\ k \in 1..n
        BY <1>1, <3>2
      <4> QED
        BY <4>1, <1>1, <2>1
    <3> QED
      BY <3>1, <3>2
  <2> QED
    BY <1>3, <2>1, <2>2, <2>3
<1> QED
  BY <1>1, <1>2, <1>4, <1>5 DEF s, n

LEMMA AnsweredAppend ==
    ASSUME NEW ms \in Seq(OpenAIMessage), NEW m \in OpenAIMessage, AnsweredInTurn(ms),
           m.role = "tool" => m.content[1].n \in CallsBehind(ms, Len(ms))
    PROVE  AnsweredInTurn(Append(ms, m))
<1> DEFINE s == Append(ms, m)
           n == Len(ms)
<1>1. /\ s \in Seq(OpenAIMessage) /\ Len(s) = n + 1 /\ n \in Nat
      /\ \A i \in 1..n : s[i] = ms[i]
      /\ s[n + 1] = m /\ DOMAIN s = 1..n + 1 /\ DOMAIN ms = 1..n
  BY AppendProperties, LenProperties
<1>2. \A i \in 0..n : CallsBehind(s, i) = CallsBehind(ms, i)
  BY CallsAppend
<1> HIDE DEF s, n
<1>3. ASSUME NEW i \in DOMAIN s, s[i].role = "tool"
      PROVE  s[i].content[1].n \in CallsBehind(s, i - 1)
  <2>1. i - 1 \in 0..n
    BY <1>1
  <2>2. CASE i = n + 1
    BY <1>1, <1>2, <1>3, <2>1, <2>2 DEF n
  <2>3. CASE i # n + 1
    <3>1. i \in DOMAIN ms /\ s[i] = ms[i]
      BY <1>1, <2>3
    <3> QED
      BY <1>2, <1>3, <2>1, <3>1 DEF AnsweredInTurn
  <2> QED
    BY <2>2, <2>3
<1> QED
  BY <1>3 DEF AnsweredInTurn, s

\* One more message.
LEMMA ReadsMore ==
    ASSUME NEW ms, NEW X, NEW A, NEW S, Reads(ms, X, A, S),
           NEW m, NEW Y, Says(m, Y, S), NEW Z, NEW B,
           \A x \in S : ~(x \in X /\ x \in Y),
           \A x \in S : x \in Z <=> x \in X \/ x \in Y,
           m.role = "tool" => m.content[1].n \in A,
           B \subseteq IF m.role = "assistant" THEN CallsOf(m) ELSE A
    PROVE  Reads(Append(ms, m), Z, B, S)
<1> DEFINE s == Append(ms, m)
           n == Len(ms)
<1>1. ms \in Seq(OpenAIMessage) /\ m \in OpenAIMessage
  BY DEF Reads, Says
<1>2. /\ s \in Seq(OpenAIMessage) /\ Len(s) = n + 1 /\ n \in Nat
      /\ \A i \in 1..n : s[i] = ms[i]
      /\ s[n + 1] = m /\ DOMAIN s = 1..n + 1 /\ DOMAIN ms = 1..n
  BY <1>1, AppendProperties, LenProperties
<1>3. AnsweredInTurn(s)
  BY <1>1, AnsweredAppend DEF Reads
<1>4. B \subseteq CallsBehind(s, Len(s))
  BY <1>1, <1>2, CallsAppend DEF Reads
<1> HIDE DEF s, n
<1>5. ASSUME NEW i \in DOMAIN s
      PROVE  BlocksOf(s[i]) \in Seq(ChatBlock) /\ IsInjective(BlocksOf(s[i]))
  <2>1. i = n + 1 \/ i \in DOMAIN ms
    BY <1>2
  <2> QED
    BY <1>2, <2>1 DEF Reads, Says
<1>6. ASSUME NEW x \in S
      PROVE  x \in Z <=> \E i \in DOMAIN s : x \in ToSet(BlocksOf(s[i]))
  <2>1. x \in X <=> \E i \in DOMAIN ms : x \in ToSet(BlocksOf(ms[i]))
    BY DEF Reads
  <2>2. x \in Y <=> x \in ToSet(BlocksOf(m))
    BY DEF Says
  <2>3. \A i : i \in DOMAIN s <=> i \in DOMAIN ms \/ i = n + 1
    BY <1>2
  <2>4. \A i \in DOMAIN ms : s[i] = ms[i]
    BY <1>2
  <2> QED
    BY <1>2, <2>1, <2>2, <2>3, <2>4
<1>7. ASSUME NEW i \in DOMAIN s, NEW j \in DOMAIN s, NEW x \in S,
             x \in ToSet(BlocksOf(s[i])), x \in ToSet(BlocksOf(s[j]))
      PROVE  i = j
  <2>1. \A k \in DOMAIN s : k = n + 1 \/ (k \in DOMAIN ms /\ s[k] = ms[k])
    BY <1>2
  <2>2. x \in ToSet(BlocksOf(m)) => x \in Y
    BY DEF Says
  <2>3. \A k \in DOMAIN ms : x \in ToSet(BlocksOf(ms[k])) => x \in X
    BY DEF Reads
  <2>4. CASE i = n + 1 \/ j = n + 1
    BY <1>2, <1>7, <2>1, <2>2, <2>3, <2>4
  <2>5. CASE i \in DOMAIN ms /\ j \in DOMAIN ms
    BY <1>7, <2>1, <2>5, <1>2 DEF Reads
  <2> QED
    BY <2>1, <2>4, <2>5
<1> QED
  <2>1. Reads(s, Z, B, S)
    BY <1>2, <1>3, <1>4, <1>5, <1>6, <1>7 DEF Reads
  <2> QED
    BY <2>1 DEF s

LEMMA ReadsAs ==
    ASSUME NEW ms, NEW X, NEW A, NEW S, Reads(ms, X, A, S), NEW Y, NEW B, B \subseteq A,
           \A x \in S : x \in X <=> x \in Y
    PROVE  Reads(ms, Y, B, S)
BY DEF Reads

LEMMA ReadsNothing ==
    ASSUME NEW S
    PROVE  Reads(<<>>, {}, {}, S)
<1>1. <<>> \in Seq(OpenAIMessage) /\ DOMAIN <<>> = {}
  BY EmptySeq
<1> QED
  BY <1>1 DEF Reads, AnsweredInTurn

\* What is picked from a list of blocks by their kind.
LEMMA OfKindIs ==
    ASSUME NEW q \in Seq(ChatBlock), NEW kinds
    PROVE  /\ OfKind(q, kinds) \in Seq(ChatBlock)
           /\ \A x : x \in ToSet(OfKind(q, kinds)) <=> x \in ToSet(q) /\ x.kind \in kinds
           /\ IsInjective(q) => IsInjective(OfKind(q, kinds))
<1> DEFINE R == [kind : kinds, n : Nat]
           s == Among(q, R)
<1>1. s = OfKind(q, kinds)
  BY DEF OfKind
<1>2. DOMAIN q = 1..Len(q) /\ \A i \in DOMAIN q : q[i] \in ChatBlock
  BY LenProperties, ElementOfSeq
<1>3. \A x : x \in ToSet(q) => (x \in R <=> x.kind \in kinds)
  BY <1>2 DEF ToSet, ChatBlock
<1> HIDE DEF R
<1>4. s \in Seq(ChatBlock) /\ ToSet(s) = ToSet(q) \cap R
  BY QueueAmong
<1>5. IsInjective(q) => IsInjective(s)
  <2> SUFFICES ASSUME IsInjective(q) PROVE IsInjective(s)
    OBVIOUS
  <2>1. \A i, j \in DOMAIN q : q[i] \in R /\ q[i] = q[j] => i = j
    BY DEF IsInjective
  <2> QED
    BY <2>1, QueueAmong
<1> HIDE DEF s
<1> QED
  BY <1>1, <1>3, <1>4, <1>5

LEMMA JoinInjective ==
    ASSUME NEW T, NEW q \in Seq(T), NEW r \in Seq(T), IsInjective(q), IsInjective(r),
           \A x : ~(x \in ToSet(q) /\ x \in ToSet(r))
    PROVE  /\ q \o r \in Seq(T) /\ IsInjective(q \o r)
           /\ \A x : x \in ToSet(q \o r) <=> x \in ToSet(q) \/ x \in ToSet(r)
<1> DEFINE s == q \o r
           n == Len(q)
           m == Len(r)
<1>1. /\ s \in Seq(T) /\ Len(s) = n + m /\ n \in Nat /\ m \in Nat
      /\ \A i \in 1..n + m : s[i] = IF i <= n THEN q[i] ELSE r[i - n]
      /\ DOMAIN s = 1..n + m /\ DOMAIN q = 1..n /\ DOMAIN r = 1..m
  BY ConcatProperties, LenProperties
<1> HIDE DEF s, n, m
<1>2. ASSUME NEW i \in 1..n PROVE i \in 1..n + m /\ s[i] = q[i]
  BY <1>1
<1>3. ASSUME NEW i \in 1..m PROVE n + i \in 1..n + m /\ s[n + i] = r[i]
  BY <1>1
<1>4. ASSUME NEW i \in 1..n + m
      PROVE  \/ i \in 1..n /\ s[i] = q[i]
             \/ i - n \in 1..m /\ s[i] = r[i - n]
  BY <1>1
<1>5. ASSUME NEW i \in 1..n + m, NEW j \in 1..n + m, s[i] = s[j] PROVE i = j
  <2>1. CASE i \in 1..n /\ s[i] = q[i] /\ j \in 1..n /\ s[j] = q[j]
    BY <1>1, <1>5, <2>1 DEF IsInjective
  <2>2. CASE i - n \in 1..m /\ s[i] = r[i - n] /\ j - n \in 1..m /\ s[j] = r[j - n]
    <3>1. i - n = j - n
      BY <1>1, <1>5, <2>2 DEF IsInjective
    <3> QED
      BY <3>1, <1>1
  <2>3. CASE i \in 1..n /\ s[i] = q[i] /\ j - n \in 1..m /\ s[j] = r[j - n]
    BY <1>1, <1>5, <2>3 DEF ToSet
  <2>4. CASE i - n \in 1..m /\ s[i] = r[i - n] /\ j \in 1..n /\ s[j] = q[j]
    BY <1>1, <1>5, <2>4 DEF ToSet
  <2> QED
    BY <1>4, <2>1, <2>2, <2>3, <2>4
<1>6. ASSUME NEW x PROVE x \in ToSet(s) <=> x \in ToSet(q) \/ x \in ToSet(r)
  <2>1. ASSUME x \in ToSet(s) PROVE x \in ToSet(q) \/ x \in ToSet(r)
    <3>1. PICK i \in 1..n + m : s[i] = x
      BY <1>1, <2>1 DEF ToSet
    <3> QED
      BY <3>1, <1>1, <1>4 DEF ToSet
  <2>2. x \in ToSet(q) => x \in ToSet(s)
    BY <1>1, <1>2 DEF ToSet
  <2>3. ASSUME x \in ToSet(r) PROVE x \in ToSet(s)
    <3>1. PICK i \in 1..m : r[i] = x
      BY <1>1, <2>3 DEF ToSet
    <3> QED
      BY <3>1, <1>1, <1>3 DEF ToSet
  <2> QED
    BY <2>1, <2>2, <2>3
<1> QED
  BY <1>1, <1>5, <1>6 DEF IsInjective, s

\* A message whose three parts have nothing in common.
LEMMA SaysParts ==
    ASSUME NEW m \in OpenAIMessage, NEW X, NEW S,
           IsInjective(m.content), IsInjective(m.reasoning), IsInjective(m.calls),
           \A x : ~(x \in ToSet(m.content) /\ x \in ToSet(m.reasoning)),
           \A x : ~(x \in ToSet(m.content) /\ x \in ToSet(m.calls)),
           \A x : ~(x \in ToSet(m.reasoning) /\ x \in ToSet(m.calls)),
           \A x \in S : x \in X <=>
               \/ x \in ToSet(m.content) \/ x \in ToSet(m.reasoning) \/ x \in ToSet(m.calls)
    PROVE  Says(m, X, S)
<1> DEFINE c == m.content
           r == m.reasoning
           t == m.calls
           cr == c \o r
<1>1. c \in Seq(ChatBlock) /\ r \in Seq(ChatBlock) /\ t \in Seq(ChatBlock)
  BY DEF OpenAIMessage
<1> HIDE DEF c, r, t
<1>2. /\ cr \in Seq(ChatBlock) /\ IsInjective(cr)
      /\ \A x : x \in ToSet(cr) <=> x \in ToSet(c) \/ x \in ToSet(r)
  BY <1>1, JoinInjective DEF c, r
<1> HIDE DEF cr
<1>3. /\ cr \o t \in Seq(ChatBlock) /\ IsInjective(cr \o t)
      /\ \A x : x \in ToSet(cr \o t) <=> x \in ToSet(cr) \/ x \in ToSet(t)
  <2>1. \A x : ~(x \in ToSet(cr) /\ x \in ToSet(t))
    BY <1>2 DEF c, r, t
  <2>2. IsInjective(t)
    BY DEF t
  <2> QED
    BY <1>1, <1>2, <2>1, <2>2, JoinInjective
<1>4. BlocksOf(m) = cr \o t
  BY DEF BlocksOf, cr, c, r, t
<1> QED
  BY <1>2, <1>3, <1>4 DEF Says, c, r, t

Modes == {"disabled", "think_tags", "reasoning_content"}

AssistantSaid == {"text", "thinking", "redacted_thinking", "tool_use"}

LEMMA TopIs ==
    ASSUME NEW top \in Top
    PROVE  top \in Seq(ChatBlock) /\ IsInjective(top) /\ \A x \in ToSet(top) : x.kind = "top"
<1> DEFINE b == [kind |-> "top", n |-> 0]
<1>1. b \in ChatBlock /\ b.kind = "top"
  BY DEF ChatBlock
<1>2. top = <<>> \/ top = Append(<<>>, b)
  BY DEF Top
<1> HIDE DEF b
<1>3. <<>> \in Seq(ChatBlock) /\ IsInjective(<<>>) /\ ToSet(<<>>) = {}
  BY QueueEmpty
<1>4. Append(<<>>, b) \in Seq(ChatBlock) /\ IsInjective(Append(<<>>, b))
      /\ ToSet(Append(<<>>, b)) = ToSet(<<>>) \cup {b}
  BY <1>1, <1>3, QueueAppend
<1> QED
  BY <1>1, <1>2, <1>3, <1>4

LEMMA AssistantParts ==
    ASSUME reasoning_replay \in Modes,
           NEW content \in Seq(ChatBlock), IsInjective(content), NEW top \in Top, NEW m,
           m = AssistantMessage(content, top)
    PROVE  /\ m \in OpenAIMessage /\ m.role = "assistant"
           /\ IsInjective(m.content) /\ IsInjective(m.reasoning) /\ IsInjective(m.calls)
           /\ \A x : ~(x \in ToSet(m.content) /\ x \in ToSet(m.reasoning))
           /\ \A x \in ToSet(m.content) : x \in ToSet(content) /\ x.kind \in {"text", "thinking"}
           /\ \A x \in ToSet(m.reasoning) :
                 x.kind \in {"top", "thinking"} /\ x \notin Replayable
           /\ \A x : x \in ToSet(m.calls) <=> x \in ToSet(content) /\ x.kind = "tool_use"
           /\ \A x \in Replayable :
                 x \in ToSet(content) /\ x.kind \in {"text", "thinking"} => x \in ToSet(m.content)
<1> DEFINE kinds == {"text"} \cup (IF reasoning_replay = "think_tags" THEN {"thinking"} ELSE {})
           c == OfKind(content, kinds)
           r == IF reasoning_replay # "reasoning_content" THEN <<>>
                ELSE IF top # <<>> THEN top ELSE OfKind(content, {"thinking"})
           t == OfKind(content, {"tool_use"})
<1>1. /\ c \in Seq(ChatBlock) /\ IsInjective(c)
      /\ \A x : x \in ToSet(c) <=> x \in ToSet(content) /\ x.kind \in kinds
  <2> HIDE DEF kinds
  <2> QED
    BY OfKindIs
<1>2. /\ t \in Seq(ChatBlock) /\ IsInjective(t)
      /\ \A x : x \in ToSet(t) <=> x \in ToSet(content) /\ x.kind = "tool_use"
  BY OfKindIs
<1>3. /\ r \in Seq(ChatBlock) /\ IsInjective(r)
      /\ \A x \in ToSet(r) : /\ x.kind \in {"top", "thinking"}
                             /\ reasoning_replay = "reasoning_content"
  <2>1. <<>> \in Seq(ChatBlock) /\ IsInjective(<<>>) /\ ToSet(<<>>) = {}
    BY QueueEmpty
  <2>2. top \in Seq(ChatBlock) /\ IsInjective(top) /\ \A x \in ToSet(top) : x.kind = "top"
    BY TopIs
  <2> DEFINE h == OfKind(content, {"thinking"})
  <2>3. h \in Seq(ChatBlock) /\ IsInjective(h) /\ \A x \in ToSet(h) : x.kind = "thinking"
    BY OfKindIs
  <2> HIDE DEF h
  <2>4. CASE reasoning_replay # "reasoning_content"
    BY <2>1, <2>4
  <2>5. CASE reasoning_replay = "reasoning_content" /\ top # <<>>
    BY <2>2, <2>5
  <2>6. CASE reasoning_replay = "reasoning_content" /\ top = <<>>
    BY <2>3, <2>6 DEF h
  <2> QED
    BY <2>4, <2>5, <2>6
<1>4. m = [role |-> "assistant", content |-> c, reasoning |-> r, calls |-> t]
  BY DEF AssistantMessage
<1>5. kinds = {"text"} \/ (kinds = {"text", "thinking"} /\ reasoning_replay = "think_tags")
  OBVIOUS
<1>6. \A x \in Replayable : /\ x.kind \in {"text", "tool_use", "tool_result", "thinking"}
                            /\ x.kind = "thinking" => "thinking" \in kinds
                                                      /\ reasoning_replay = "think_tags"
                            /\ "text" \in kinds
  BY DEF Replayable, ReplayedKind
<1> HIDE DEF c, r, t, kinds
<1>7. m \in OpenAIMessage /\ m.role = "assistant" /\ m.content = c /\ m.reasoning = r /\ m.calls = t
  BY <1>1, <1>2, <1>3, <1>4 DEF OpenAIMessage
<1>8. \A x : ~(x \in ToSet(c) /\ x \in ToSet(r))
  BY <1>1, <1>3, <1>5
<1>9. \A x \in ToSet(r) : x \notin Replayable
  BY <1>3, <1>6
<1>10. \A x \in Replayable :
           x \in ToSet(content) /\ x.kind \in {"text", "thinking"} => x \in ToSet(c)
  BY <1>1, <1>6
<1>11. \A x \in ToSet(c) : x \in ToSet(content) /\ x.kind \in {"text", "thinking"}
  BY <1>1, <1>5
<1> QED
  BY <1>1, <1>2, <1>3, <1>7, <1>8, <1>9, <1>10, <1>11

LEMMA AssistantSays ==
    ASSUME reasoning_replay \in Modes,
           NEW content \in Seq(ChatBlock), IsInjective(content), NEW top \in Top,
           \A b \in ToSet(content) : b.kind \in AssistantSaid
    PROVE  /\ Says(AssistantMessage(content, top), ToSet(content), Replayable)
           /\ AssistantMessage(content, top).role = "assistant"
<1> DEFINE m == AssistantMessage(content, top)
<1> HIDE DEF m
<1>1. /\ m \in OpenAIMessage /\ m.role = "assistant"
      /\ IsInjective(m.content) /\ IsInjective(m.reasoning) /\ IsInjective(m.calls)
      /\ \A x : ~(x \in ToSet(m.content) /\ x \in ToSet(m.reasoning))
      /\ \A x \in ToSet(m.content) : x \in ToSet(content) /\ x.kind \in {"text", "thinking"}
      /\ \A x \in ToSet(m.reasoning) : x.kind \in {"top", "thinking"} /\ x \notin Replayable
      /\ \A x : x \in ToSet(m.calls) <=> x \in ToSet(content) /\ x.kind = "tool_use"
      /\ \A x \in Replayable :
            x \in ToSet(content) /\ x.kind \in {"text", "thinking"} => x \in ToSet(m.content)
  BY AssistantParts DEF m
<1>2. \A x \in Replayable : x.kind \in {"text", "tool_use", "tool_result", "thinking"}
  BY DEF Replayable, ReplayedKind
<1>3. \A x \in Replayable : x \in ToSet(content) <=>
           x \in ToSet(m.content) \/ x \in ToSet(m.reasoning) \/ x \in ToSet(m.calls)
  BY <1>1, <1>2 DEF AssistantSaid
<1>4. Says(m, ToSet(content), Replayable)
  BY <1>1, <1>3, SaysParts
<1> QED
  BY <1>1, <1>4 DEF m

LEMMA FirstToolIs ==
    ASSUME NEW content \in Seq(ChatBlock), NEW t \in ToSet(content), t.kind = "tool_use"
    PROVE  /\ FirstToolUse(content) \in 1..Len(content)
           /\ \A i \in 1..FirstToolUse(content) - 1 : content[i].kind # "tool_use"
<1> DEFINE T == {i \in 1..Len(content) : content[i].kind = "tool_use"}
           Is(i) == /\ i \in 1..Len(content)
                    /\ content[i].kind = "tool_use"
                    /\ \A j \in 1..(i - 1) : content[j].kind # "tool_use"
<1>1. Len(content) \in Nat /\ DOMAIN content = 1..Len(content)
  BY LenProperties
<1>2. T \subseteq 1..Len(content) /\ T # {}
  BY <1>1 DEF ToSet
<1>3. \E m \in T : \A k \in T : m <= k
  <2> HIDE DEF T
  <2> QED
    BY <1>1, <1>2, LeastIndex
<1>4. PICK m \in T : \A k \in T : m <= k
  BY <1>3
<1>5. Is(m)
  <2>1. \A j \in 1..m - 1 : j \in 1..Len(content) /\ ~(m <= j)
    BY <1>1, <1>4
  <2> QED
    BY <1>4, <2>1
<1>6. Is(CHOOSE i : Is(i))
  <2> HIDE DEF Is
  <2> QED
    BY <1>5
<1>7. FirstToolUse(content) = CHOOSE i : Is(i)
  BY <1>1 DEF FirstToolUse
<1> QED
  BY <1>6, <1>7

LEMMA CutIs ==
    ASSUME NEW T, NEW q \in Seq(T), IsInjective(q), NEW i \in 1..Len(q)
    PROVE  /\ SubSeq(q, 1, i - 1) \in Seq(T) /\ IsInjective(SubSeq(q, 1, i - 1))
           /\ SubSeq(q, i, Len(q)) \in Seq(T) /\ IsInjective(SubSeq(q, i, Len(q)))
           /\ \A x : x \in ToSet(q) <=>
                 x \in ToSet(SubSeq(q, 1, i - 1)) \/ x \in ToSet(SubSeq(q, i, Len(q)))
           /\ \A x : ~(x \in ToSet(SubSeq(q, 1, i - 1)) /\ x \in ToSet(SubSeq(q, i, Len(q))))
           /\ \A x \in ToSet(SubSeq(q, 1, i - 1)) : \E j \in 1..i - 1 : x = q[j]
<1> DEFINE n == Len(q)
           a == SubSeq(q, 1, i - 1)
           b == SubSeq(q, i, n)
<1>1. n \in Nat /\ DOMAIN q = 1..n /\ \A j \in 1..n : q[j] \in T
  BY LenProperties, ElementOfSeq
<1>2. /\ a \in Seq(T) /\ Len(a) = i - 1
      /\ \A j \in 1..i - 1 : a[j] = q[j]
  <2>1. \A j \in 1..i - 1 : q[j] \in T
    BY <1>1
  <2>2. /\ a \in Seq(T) /\ Len(a) = IF 1 <= i - 1 THEN i - 1 - 1 + 1 ELSE 0
        /\ \A j \in 1..i - 1 - 1 + 1 : a[j] = q[1 + j - 1]
    BY <1>1, <2>1, SubSeqProperties
  <2> QED
    BY <1>1, <2>2
<1>3. /\ b \in Seq(T) /\ Len(b) = n - i + 1
      /\ \A j \in 1..n - i + 1 : b[j] = q[i + j - 1]
  <2>1. \A j \in i..n : q[j] \in T
    BY <1>1
  <2>2. /\ b \in Seq(T) /\ Len(b) = IF i <= n THEN n - i + 1 ELSE 0
        /\ \A j \in 1..n - i + 1 : b[j] = q[i + j - 1]
    BY <1>1, <2>1, SubSeqProperties
  <2> QED
    BY <1>1, <2>2
<1>4. DOMAIN a = 1..i - 1 /\ DOMAIN b = 1..n - i + 1
  BY <1>2, <1>3, LenProperties
<1>5. i \in 1..n
  OBVIOUS
<1> HIDE DEF a, b, n
<1>6. IsInjective(a)
  <2>1. \A j \in 1..i - 1 : j \in 1..n
    BY <1>1, <1>5
  <2> QED
    BY <1>1, <1>2, <1>4, <2>1 DEF IsInjective
<1>7. IsInjective(b)
  <2> SUFFICES ASSUME NEW j \in 1..n - i + 1, NEW k \in 1..n - i + 1, b[j] = b[k] PROVE j = k
    BY <1>4 DEF IsInjective
  <2>1. i + j - 1 \in 1..n /\ i + k - 1 \in 1..n
    BY <1>1, <1>5
  <2>2. q[i + j - 1] = q[i + k - 1]
    BY <1>3
  <2>3. i + j - 1 = i + k - 1
    BY <1>1, <2>1, <2>2 DEF IsInjective
  <2> QED
    BY <2>3, <1>1, <1>5
<1>8. \A x : x \in ToSet(a) <=> \E j \in 1..i - 1 : x = q[j]
  BY <1>2, <1>4 DEF ToSet
<1>9. ASSUME NEW x PROVE x \in ToSet(b) <=> \E j \in i..n : x = q[j]
  <2>1. ASSUME x \in ToSet(b) PROVE \E j \in i..n : x = q[j]
    <3>1. PICK k \in 1..n - i + 1 : x = b[k]
      BY <1>4, <2>1 DEF ToSet
    <3>2. i + k - 1 \in i..n /\ x = q[i + k - 1]
      BY <1>1, <1>3, <1>5, <3>1
    <3> QED
      BY <3>2
  <2>2. ASSUME NEW j \in i..n, x = q[j] PROVE x \in ToSet(b)
    <3> DEFINE k == j - i + 1
    <3>1. k \in 1..n - i + 1 /\ i + k - 1 = j
      BY <1>1, <1>5
    <3> HIDE DEF k
    <3>2. b[k] = x
      BY <1>3, <2>2, <3>1
    <3> QED
      BY <1>4, <3>1, <3>2 DEF ToSet
  <2> QED
    BY <2>1, <2>2
<1>10. \A j : j \in 1..n <=> j \in 1..i - 1 \/ j \in i..n
  BY <1>1, <1>5
<1>11. \A j \in 1..i - 1, k \in i..n : j # k
  BY <1>1, <1>5
<1>12. \A x : x \in ToSet(q) <=> \E j \in 1..n : x = q[j]
  BY <1>1 DEF ToSet
<1>13. \A x : ~(x \in ToSet(a) /\ x \in ToSet(b))
  <2> SUFFICES ASSUME NEW j \in 1..i - 1, NEW k \in i..n, q[j] = q[k] PROVE FALSE
    BY <1>8, <1>9
  <2>1. j \in 1..n /\ k \in 1..n
    BY <1>10
  <2> QED
    BY <1>1, <1>11, <2>1 DEF IsInjective
<1>14. \A x : x \in ToSet(q) <=> x \in ToSet(a) \/ x \in ToSet(b)
  BY <1>8, <1>9, <1>10, <1>12
<1> QED
  BY <1>2, <1>3, <1>6, <1>7, <1>8, <1>13, <1>14 DEF a, b, n

\* What may wait behind the results of calls.
Waiting(p) ==
    /\ p \in [ids : SUBSET Nat, deferred : Seq(ChatBlock), top : Top]
    /\ IsInjective(p.deferred)
    /\ \A b \in ToSet(p.deferred) : b.kind \in AssistantSaid

LEMMA NoneWaits == Waiting(NoPending) /\ ToSet(NoPending.deferred) = {} /\ NoPending.deferred = <<>>
<1>1. <<>> \in Seq(ChatBlock) /\ IsInjective(<<>>) /\ ToSet(<<>>) = {}
  BY QueueEmpty
<1> QED
  BY <1>1 DEF NoPending, Waiting, Top

\* The message up to its calls says all but what it defers.
LEMMA SplitSays ==
    ASSUME reasoning_replay \in Modes,
           NEW content \in Seq(ChatBlock), IsInjective(content), NEW top \in Top,
           \A b \in ToSet(content) : b.kind \in AssistantSaid,
           NEW t \in ToSet(content), t.kind = "tool_use",
           NEW m, m = SplitMessage(content, top), NEW p, p = Deferred(content, top)
    PROVE  /\ Says(m, ToSet(content) \ ToSet(p.deferred), Replayable)
           /\ m.role = "assistant"
           /\ CallsOf(m) = {b.n : b \in ToSet(OfKind(content, {"tool_use"}))}
           /\ Waiting(p) /\ ToSet(p.deferred) \subseteq ToSet(content)
           /\ p.deferred # <<>> => p.ids = CallsOf(m) /\ p.ids # {}
<1> DEFINE f == FirstToolUse(content)
           pre == SubSeq(content, 1, f - 1)
           after == SubSeq(content, f, Len(content))
           calls == OfKind(content, {"tool_use"})
           rest == OfKind(after, AssistantKind \ {"tool_use"})
           a == AssistantMessage(pre, top)
<1>1. f \in 1..Len(content) /\ \A i \in 1..f - 1 : content[i].kind # "tool_use"
  BY FirstToolIs
<1> HIDE DEF f
<1>2. /\ pre \in Seq(ChatBlock) /\ IsInjective(pre)
      /\ after \in Seq(ChatBlock) /\ IsInjective(after)
      /\ \A x : x \in ToSet(content) <=> x \in ToSet(pre) \/ x \in ToSet(after)
      /\ \A x : ~(x \in ToSet(pre) /\ x \in ToSet(after))
      /\ \A x \in ToSet(pre) : \E j \in 1..f - 1 : x = content[j]
  BY <1>1, CutIs
<1>3. /\ calls \in Seq(ChatBlock) /\ IsInjective(calls)
      /\ \A x : x \in ToSet(calls) <=> x \in ToSet(content) /\ x.kind = "tool_use"
  BY OfKindIs
<1>4. m = [a EXCEPT !.calls = calls]
  BY DEF SplitMessage, f
<1>5. p = IF rest = <<>> THEN NoPending
          ELSE [ids |-> {b.n : b \in ToSet(calls)}, deferred |-> rest, top |-> top]
  BY DEF Deferred, f
<1> HIDE DEF pre, after, calls, a
<1>6. /\ rest \in Seq(ChatBlock) /\ IsInjective(rest)
      /\ \A x : x \in ToSet(rest) <=> x \in ToSet(after) /\ x.kind \in AssistantKind \ {"tool_use"}
  BY <1>2, OfKindIs
<1> HIDE DEF rest
<1>7. /\ a \in OpenAIMessage /\ a.role = "assistant"
      /\ IsInjective(a.content) /\ IsInjective(a.reasoning) /\ IsInjective(a.calls)
      /\ \A x : ~(x \in ToSet(a.content) /\ x \in ToSet(a.reasoning))
      /\ \A x \in ToSet(a.content) : x \in ToSet(pre) /\ x.kind \in {"text", "thinking"}
      /\ \A x \in ToSet(a.reasoning) : x.kind \in {"top", "thinking"} /\ x \notin Replayable
      /\ \A x \in Replayable :
            x \in ToSet(pre) /\ x.kind \in {"text", "thinking"} => x \in ToSet(a.content)
  <2>1. a = AssistantMessage(pre, top) /\ pre \in Seq(ChatBlock) /\ IsInjective(pre)
    BY <1>2 DEF a
  <2> QED
    BY <2>1, AssistantParts
<1>8. /\ m \in OpenAIMessage /\ m.role = "assistant" /\ m.content = a.content
      /\ m.reasoning = a.reasoning /\ m.calls = calls
  BY <1>3, <1>4, <1>7 DEF OpenAIMessage
<1>9. \A x \in ToSet(pre) : x.kind # "tool_use"
  BY <1>1, <1>2
<1>10. \A x \in Replayable : x.kind \in {"text", "tool_use", "tool_result", "thinking"}
  BY DEF Replayable, ReplayedKind
<1>11. Waiting(p) /\ ToSet(p.deferred) = ToSet(rest)
  <2>1. CASE rest = <<>>
    BY <1>5, <2>1, NoneWaits, QueueEmpty
  <2>2. CASE rest # <<>>
    <3>1. p.deferred = rest /\ p.top = top /\ p.ids = {b.n : b \in ToSet(calls)}
          /\ p = [ids |-> p.ids, deferred |-> rest, top |-> top]
      BY <1>5, <2>2
    <3>2. p.ids \subseteq Nat
      <4>1. \A b \in ToSet(calls) : b.n \in Nat
        <5>1. DOMAIN calls = 1..Len(calls) /\ \A i \in DOMAIN calls : calls[i] \in ChatBlock
          BY <1>3, LenProperties, ElementOfSeq
        <5> QED
          BY <5>1 DEF ToSet, ChatBlock
      <4> QED
        BY <3>1, <4>1
    <3>3. \A b \in ToSet(rest) : b.kind \in AssistantSaid
      BY <1>2, <1>6
    <3> QED
      BY <1>6, <3>1, <3>2, <3>3 DEF Waiting
  <2> QED
    BY <2>1, <2>2
<1>12. \A x \in Replayable : x \in ToSet(content) \ ToSet(rest) <=>
           x \in ToSet(a.content) \/ x \in ToSet(a.reasoning) \/ x \in ToSet(calls)
  <2> SUFFICES ASSUME NEW x \in Replayable
               PROVE  x \in ToSet(content) \ ToSet(rest) <=>
                          x \in ToSet(a.content) \/ x \in ToSet(calls)
    BY <1>7
  <2>1. ASSUME x \in ToSet(content), x \notin ToSet(rest)
        PROVE  x \in ToSet(a.content) \/ x \in ToSet(calls)
    <3>1. x \in ToSet(after) => x.kind = "tool_use"
      BY <1>6, <1>10, <2>1 DEF AssistantKind, AssistantSaid
    <3>2. x \in ToSet(pre) => x.kind \in {"text", "thinking"}
      BY <1>9, <1>10, <2>1 DEF AssistantSaid
    <3> QED
      BY <1>2, <1>3, <1>7, <2>1, <3>1, <3>2
  <2>2. x \in ToSet(a.content) => x \in ToSet(content) /\ x \notin ToSet(rest)
    BY <1>2, <1>6, <1>7
  <2>3. x \in ToSet(calls) => x \in ToSet(content) /\ x \notin ToSet(rest)
    BY <1>3, <1>6
  <2> QED
    BY <2>1, <2>2, <2>3
<1>13. \A x : /\ ~(x \in ToSet(m.content) /\ x \in ToSet(m.calls))
              /\ ~(x \in ToSet(m.reasoning) /\ x \in ToSet(m.calls))
  BY <1>3, <1>7, <1>8
<1>14. Says(m, ToSet(content) \ ToSet(p.deferred), Replayable)
  BY <1>3, <1>7, <1>8, <1>11, <1>12, <1>13, SaysParts
<1>15. CallsOf(m) = {b.n : b \in ToSet(calls)} /\ t \in ToSet(calls)
  BY <1>3, <1>8 DEF CallsOf
<1>16. p.deferred # <<>> => p.ids = CallsOf(m) /\ p.ids # {}
  <2>1. p.deferred # <<>> => p.ids = {b.n : b \in ToSet(calls)}
    BY <1>5, NoneWaits
  <2>2. {b.n : b \in ToSet(calls)} # {}
    BY <1>15
  <2> QED
    BY <1>15, <2>1, <2>2
<1>17. ToSet(p.deferred) \subseteq ToSet(content)
  BY <1>2, <1>6, <1>11
<1> QED
  BY <1>8, <1>11, <1>14, <1>15, <1>16, <1>17 DEF calls

LEMMA OneBlock ==
    ASSUME NEW b \in ChatBlock
    PROVE  <<b>> \in Seq(ChatBlock) /\ IsInjective(<<b>>) /\ ToSet(<<b>>) = {b} /\ <<b>>[1] = b
<1>1. <<b>> = Append(<<>>, b) /\ <<b>>[1] = b
  OBVIOUS
<1>2. <<>> \in Seq(ChatBlock) /\ IsInjective(<<>>) /\ ToSet(<<>>) = {}
  BY QueueEmpty
<1>3. /\ Append(<<>>, b) \in Seq(ChatBlock) /\ IsInjective(Append(<<>>, b))
      /\ ToSet(Append(<<>>, b)) = ToSet(<<>>) \cup {b}
  BY <1>2, QueueAppend
<1> QED
  BY <1>1, <1>2, <1>3

LEMMA StringSays ==
    ASSUME reasoning_replay \in Modes,
           NEW role \in {"assistant", "user"}, NEW b \in ChatBlock, b.kind = "text", NEW top \in Top
    PROVE  Says(StringMessage(role, b, top), {b}, Replayable) /\ StringMessage(role, b, top).role = role
<1> DEFINE c == (IF reasoning_replay = "think_tags" THEN top ELSE <<>>) \o <<b>>
           r == IF reasoning_replay = "reasoning_content" THEN top ELSE <<>>
           m == StringMessage(role, b, top)
<1>1. /\ top \in Seq(ChatBlock) /\ IsInjective(top) /\ \A x \in ToSet(top) : x.kind = "top"
      /\ <<>> \in Seq(ChatBlock) /\ IsInjective(<<>>) /\ ToSet(<<>>) = {}
  BY TopIs, QueueEmpty
<1>2. <<b>> \in Seq(ChatBlock) /\ IsInjective(<<b>>) /\ ToSet(<<b>>) = {b}
  BY OneBlock
<1>3. ASSUME NEW q \in Seq(ChatBlock), IsInjective(q), \A x \in ToSet(q) : x.kind = "top"
      PROVE  /\ q \o <<b>> \in Seq(ChatBlock) /\ IsInjective(q \o <<b>>)
             /\ \A x : x \in ToSet(q \o <<b>>) <=> x \in ToSet(q) \/ x = b
  <2>1. \A x : ~(x \in ToSet(q) /\ x \in ToSet(<<b>>))
    BY <1>2, <1>3
  <2> QED
    BY <1>2, <1>3, <2>1, JoinInjective
<1>4. /\ c \in Seq(ChatBlock) /\ IsInjective(c) /\ b \in ToSet(c)
      /\ \A x \in ToSet(c) : x = b \/ (x.kind = "top" /\ reasoning_replay = "think_tags")
  <2>1. CASE reasoning_replay = "think_tags"
    BY <1>1, <1>3, <2>1
  <2>2. CASE reasoning_replay # "think_tags"
    BY <1>1, <1>3, <2>2
  <2> QED
    BY <2>1, <2>2
<1>5. /\ r \in Seq(ChatBlock) /\ IsInjective(r)
      /\ \A x \in ToSet(r) : x.kind = "top" /\ reasoning_replay = "reasoning_content"
  <2>1. CASE reasoning_replay = "reasoning_content"
    BY <1>1, <2>1
  <2>2. CASE reasoning_replay # "reasoning_content"
    BY <1>1, <2>2
  <2> QED
    BY <2>1, <2>2
<1>6. m = [role |-> role, content |-> c, reasoning |-> r, calls |-> <<>>]
  BY DEF StringMessage
<1> HIDE DEF c, r, m
<1>7. /\ m \in OpenAIMessage /\ m.role = role /\ m.content = c /\ m.reasoning = r
      /\ m.calls = <<>>
  BY <1>1, <1>4, <1>5, <1>6 DEF OpenAIMessage
<1>8. \A x \in Replayable : x.kind # "top"
  BY DEF Replayable, ReplayedKind
<1>9. \A x : ~(x \in ToSet(c) /\ x \in ToSet(r))
  BY <1>4, <1>5
<1>10. \A x \in Replayable : x \in {b} <=>
           x \in ToSet(m.content) \/ x \in ToSet(m.reasoning) \/ x \in ToSet(m.calls)
  BY <1>1, <1>4, <1>5, <1>7, <1>8
<1>11. Says(m, {b}, Replayable)
  BY <1>1, <1>4, <1>5, <1>7, <1>9, <1>10, SaysParts
<1> QED
  BY <1>7, <1>11 DEF m

LEMMA UserSays ==
    ASSUME NEW texts \in Seq(ChatBlock), IsInjective(texts)
    PROVE  Says(UserMessage(texts), ToSet(texts), Replayable) /\ UserMessage(texts).role = "user"
<1> DEFINE m == UserMessage(texts)
<1>1. <<>> \in Seq(ChatBlock) /\ IsInjective(<<>>) /\ ToSet(<<>>) = {}
  BY QueueEmpty
<1>2. /\ m \in OpenAIMessage /\ m.role = "user" /\ m.content = texts /\ m.reasoning = <<>>
      /\ m.calls = <<>>
  BY <1>1 DEF UserMessage, OpenAIMessage
<1> HIDE DEF m
<1>3. Says(m, ToSet(texts), Replayable)
  BY <1>1, <1>2, SaysParts
<1> QED
  BY <1>2, <1>3 DEF m

LEMMA ToolSays ==
    ASSUME NEW b \in ChatBlock
    PROVE  /\ Says(ToolMessage(b), {b}, Replayable)
           /\ ToolMessage(b).role = "tool" /\ ToolMessage(b).content[1] = b
<1> DEFINE m == ToolMessage(b)
<1>1. <<>> \in Seq(ChatBlock) /\ IsInjective(<<>>) /\ ToSet(<<>>) = {}
  BY QueueEmpty
<1>2. <<b>> \in Seq(ChatBlock) /\ IsInjective(<<b>>) /\ ToSet(<<b>>) = {b} /\ <<b>>[1] = b
  BY OneBlock
<1>3. /\ m \in OpenAIMessage /\ m.role = "tool" /\ m.content = <<b>> /\ m.reasoning = <<>>
      /\ m.calls = <<>>
  BY <1>1, <1>2 DEF ToolMessage, OpenAIMessage
<1> HIDE DEF m
<1>4. Says(m, {b}, Replayable)
  BY <1>1, <1>2, <1>3, SaysParts
<1> QED
  BY <1>2, <1>3, <1>4 DEF m

LEMMA ConcatAppends ==
    ASSUME NEW T, NEW q \in Seq(T), NEW r \in Seq(T), NEW x \in T
    PROVE  /\ r \o <<x>> = Append(r, x)
           /\ q \o r \in Seq(T) /\ q \o Append(r, x) = Append(q \o r, x)
<1>1. ASSUME NEW s \in Seq(T) PROVE s \o <<x>> = Append(s, x)
  <2>1. /\ <<x>> \in Seq(T) /\ Len(<<x>>) = 1 /\ <<x>>[1] = x
    OBVIOUS
  <2> DEFINE u == s \o <<x>>
             v == Append(s, x)
  <2>2. /\ u \in Seq(T) /\ Len(u) = Len(s) + 1 /\ Len(s) \in Nat
        /\ \A i \in 1..Len(s) + 1 : u[i] = IF i <= Len(s) THEN s[i] ELSE <<x>>[i - Len(s)]
    BY <2>1, ConcatProperties, LenProperties
  <2>3. /\ v \in Seq(T) /\ Len(v) = Len(s) + 1 /\ v[Len(s) + 1] = x
        /\ \A i \in 1..Len(s) : v[i] = s[i]
    BY AppendProperties
  <2> HIDE DEF u, v
  <2>4. ASSUME NEW i \in 1..Len(u) PROVE u[i] = v[i]
    <3>1. CASE i <= Len(s)
      <4>1. i \in 1..Len(s) /\ i \in 1..Len(s) + 1
        BY <2>2, <3>1
      <4>2. u[i] = s[i]
        BY <2>2, <3>1, <4>1
      <4> QED
        BY <2>3, <4>1, <4>2
    <3>2. CASE ~(i <= Len(s))
      <4>1. i = Len(s) + 1 /\ i - Len(s) = 1
        BY <2>2, <3>2
      <4> QED
        BY <2>1, <2>2, <2>3, <3>2, <4>1
    <3> QED
      BY <3>1, <3>2
  <2>5. u = v
    BY <2>2, <2>3, <2>4, SeqEqual
  <2> QED
    BY <2>5 DEF u, v
<1>2. /\ <<x>> \in Seq(T) /\ q \o r \in Seq(T)
  BY ConcatProperties
<1>3. (q \o r) \o <<x>> = q \o (r \o <<x>>)
  BY <1>2, ConcatAssociative
<1> QED
  BY <1>1, <1>2, <1>3

LEMMA ThreeLists ==
    ASSUME NEW T, NEW q \in Seq(T), NEW r \in Seq(T), NEW s \in Seq(T)
    PROVE  q \o (r \o s) = (q \o r) \o s
BY ConcatAssociative

\* What was deferred is one message more, or none.
LEMMA SendsDeferred ==
    ASSUME reasoning_replay \in Modes,
           NEW ms, NEW X, NEW A, Reads(ms, X, A, Replayable),
           NEW p, Waiting(p), \A x \in Replayable : ~(x \in X /\ x \in ToSet(p.deferred)),
           NEW Z, \A x \in Replayable : x \in Z <=> x \in X \/ x \in ToSet(p.deferred)
    PROVE  Reads(ms \o DeferredMessages(p), Z, {}, Replayable)
<1>1. ms \in Seq(OpenAIMessage)
  BY DEF Reads
<1>2. CASE p.deferred = <<>>
  <2>1. ms \o DeferredMessages(p) = ms
    BY <1>1, <1>2, ConcatEmptySeq DEF DeferredMessages
  <2>2. \A x \in Replayable : x \in X <=> x \in Z
    BY <1>2, QueueEmpty
  <2> QED
    BY <2>1, <2>2, ReadsAs
<1>3. CASE p.deferred # <<>>
  <2> DEFINE m == AssistantMessage(p.deferred, p.top)
  <2>1. p.deferred \in Seq(ChatBlock) /\ IsInjective(p.deferred) /\ p.top \in Top
        /\ \A b \in ToSet(p.deferred) : b.kind \in AssistantSaid
    BY DEF Waiting
  <2>2. Says(m, ToSet(p.deferred), Replayable) /\ m.role = "assistant"
    BY <2>1, AssistantSays
  <2>3. DeferredMessages(p) = <<m>>
    BY <1>3 DEF DeferredMessages
  <2> HIDE DEF m
  <2>4. m \in OpenAIMessage
    BY <2>2 DEF Says
  <2>5. ms \o <<m>> = Append(ms, m)
    BY <1>1, <2>4, ConcatAppends
  <2>6. Reads(Append(ms, m), Z, {}, Replayable)
    BY <2>2, ReadsMore
  <2> QED
    BY <2>3, <2>5, <2>6
<1> QED
  BY <1>2, <1>3

Converting ==
    /\ blocks \in Seq(ChatBlock)
    /\ \A b \in ToSet(blocks) : b.n <= Len(blocks)
    /\ answerable \subseteq 1..Len(blocks)
    /\ \A b \in ToSet(blocks) : b.kind = "tool_result" => b.n \notin answerable
    /\ Waiting(pending) /\ ToSet(pending.deferred) \subseteq ToSet(blocks)
    /\ NeedsDeferred => pending.ids # {} /\ (answerable # {} => pending.ids = answerable)
    /\ Reads(result, ToSet(blocks) \ ToSet(pending.deferred), answerable, Replayable)

\* A conversation that is not refused is replayed so far, but for what is
\* deferred: that waits for just the calls that may still be answered.
ConversionInv ==
    /\ reasoning_replay \in Modes
    /\ IF refused THEN AnsweredInTurn(Replayed) ELSE Converting

\* A message of the client's that is a list.
UserSends(content) ==
    /\ content \in Seq(ChatBlock) /\ IsInjective(content)
    /\ \A b \in ToSet(content) :
          /\ b \notin ToSet(blocks)
          /\ b.kind = "text" \/ (b.kind = "tool_result" /\ b.n \in answerable)

FirstOf(content, k) == {content[j] : j \in 1..k}

\* The first k blocks of it are converted.
Converted(acc, content, k) ==
    /\ acc \in [out : Seq(OpenAIMessage), texts : Seq(ChatBlock), ids : SUBSET Nat, cleared : BOOLEAN]
    /\ IsInjective(acc.texts)
    /\ ToSet(acc.texts) \subseteq {x \in FirstOf(content, k) : x.kind = "text"}
    /\ acc.ids = pending.ids \ {x.n : x \in {y \in FirstOf(content, k) : y.kind = "tool_result"}}
    /\ acc.cleared <=> NeedsDeferred /\ acc.ids = {}
    /\ Reads(result \o acc.out,
             (ToSet(blocks) \cup FirstOf(content, k)) \
                 (ToSet(acc.texts) \cup IF acc.cleared THEN {} ELSE ToSet(pending.deferred)),
             IF acc.cleared THEN {} ELSE answerable, Replayable)

LEMMA FlushConverts ==
    ASSUME reasoning_replay \in Modes, Converting, NEW content, UserSends(content),
           NEW k \in 0..Len(content), NEW acc, Converted(acc, content, k),
           NEW a, a = FlushText(acc)
    PROVE  Converted(a, content, k) /\ a.texts = <<>>
           /\ a.ids = acc.ids /\ a.cleared = acc.cleared
<1> DEFINE First == FirstOf(content, k)
           Shut == IF acc.cleared THEN {} ELSE ToSet(pending.deferred)
           A == IF acc.cleared THEN {} ELSE answerable
           X == (ToSet(blocks) \cup First) \ (ToSet(acc.texts) \cup Shut)
           Z == (ToSet(blocks) \cup First) \ (ToSet(<<>>) \cup Shut)
           m == UserMessage(acc.texts)
<1>1. /\ acc \in [out : Seq(OpenAIMessage), texts : Seq(ChatBlock), ids : SUBSET Nat,
                  cleared : BOOLEAN]
      /\ IsInjective(acc.texts) /\ ToSet(acc.texts) \subseteq {x \in First : x.kind = "text"}
      /\ Reads(result \o acc.out, X, A, Replayable)
  BY DEF Converted
<1>2. <<>> \in Seq(ChatBlock) /\ IsInjective(<<>>) /\ ToSet(<<>>) = {}
  BY QueueEmpty
<1>3. CASE acc.texts = <<>>
  BY <1>3 DEF FlushText
<1>4. CASE acc.texts # <<>>
  <2>1. a = [acc EXCEPT !.out = Append(@, m), !.texts = <<>>]
    BY <1>4 DEF FlushText
  <2>2. Says(m, ToSet(acc.texts), Replayable) /\ m.role = "user" /\ m \in OpenAIMessage
    BY <1>1, UserSays DEF Says
  <2> HIDE DEF m
  <2>3. /\ a.out = Append(acc.out, m) /\ a.texts = <<>> /\ a.ids = acc.ids
        /\ a.cleared = acc.cleared
        /\ a \in [out : Seq(OpenAIMessage), texts : Seq(ChatBlock), ids : SUBSET Nat,
                  cleared : BOOLEAN]
    <3>1. Append(acc.out, m) \in Seq(OpenAIMessage)
      BY <1>1, <2>2, AppendProperties
    <3> QED
      BY <1>1, <1>2, <2>1, <3>1
  <2>4. ASSUME NEW x \in ToSet(acc.texts) PROVE x \in First /\ x \notin ToSet(pending.deferred)
    <3>1. \E j \in 1..k : x = content[j]
      BY <1>1 DEF FirstOf
    <3>2. DOMAIN content = 1..Len(content) /\ Len(content) \in Nat
      BY LenProperties DEF UserSends
    <3>3. x \in ToSet(content)
      BY <3>1, <3>2 DEF ToSet
    <3>4. x \notin ToSet(blocks)
      BY <3>3 DEF UserSends
    <3> QED
      BY <1>1, <3>4 DEF Converting
  <2> HIDE DEF First
  <2>5. \A x : x \in Z <=> x \in X \/ x \in ToSet(acc.texts)
    BY <1>2, <2>4
  <2>6. \A x : ~(x \in X /\ x \in ToSet(acc.texts))
    OBVIOUS
  <2> HIDE DEF X, Z, A
  <2>7. Reads(Append(result \o acc.out, m), Z, A, Replayable)
    BY <1>1, <2>2, <2>5, <2>6, ReadsMore
  <2>8. result \o a.out = Append(result \o acc.out, m)
    <3>1. result \in Seq(OpenAIMessage)
      BY DEF Converting, Reads
    <3> QED
      BY <1>1, <2>2, <2>3, <3>1, ConcatAppends
  <2>9. Reads(result \o a.out, Z, A, Replayable)
    BY <2>7, <2>8
  <2>10. /\ a.ids = pending.ids \ {x.n : x \in {y \in First : y.kind = "tool_result"}}
         /\ a.cleared <=> NeedsDeferred /\ a.ids = {}
    BY <2>3 DEF Converted, First
  <2> QED
    BY <1>2, <2>3, <2>9, <2>10 DEF Converted, Z, A, First
<1> QED
  BY <1>3, <1>4

LEMMA BlockConverts ==
    ASSUME reasoning_replay \in Modes, Converting, NEW content, UserSends(content),
           NEW k \in 1..Len(content), NEW acc, Converted(acc, content, k - 1)
    PROVE  Converted(UserBlock(acc, content[k]), content, k)
<1> DEFINE b == content[k]
           Earlier == FirstOf(content, k - 1)
           First == FirstOf(content, k)
<1>1. DOMAIN content = 1..Len(content) /\ Len(content) \in Nat /\ k - 1 \in 0..Len(content)
  BY LenProperties DEF UserSends
<1>2. b \in ChatBlock /\ b \in ToSet(content)
  BY <1>1, ElementOfSeq DEF UserSends, ToSet
<1>3. \A x : x \in First <=> x \in Earlier \/ x = b
  <2>1. \A j : j \in 1..k <=> j \in 1..k - 1 \/ j = k
    BY <1>1
  <2> QED
    BY <2>1 DEF FirstOf
<1>4. b \notin Earlier
  <2> SUFFICES ASSUME NEW j \in 1..k - 1, content[j] = b PROVE FALSE
    BY DEF FirstOf
  <2>1. j \in 1..Len(content) /\ j # k
    BY <1>1
  <2> QED
    BY <1>1, <2>1 DEF UserSends, IsInjective
<1>5. Earlier \subseteq ChatBlock
  <2>1. \A j \in 1..k - 1 : j \in 1..Len(content)
    BY <1>1
  <2> QED
    BY <2>1, ElementOfSeq DEF FirstOf, UserSends
<1>6. b \notin ToSet(blocks) /\ (b.kind = "text" \/ (b.kind = "tool_result" /\ b.n \in answerable))
  BY <1>2 DEF UserSends
<1>7. b \notin ToSet(pending.deferred)
  BY <1>6 DEF Converting
<1> HIDE DEF b, Earlier, First
<1>8. CASE b.kind = "text"
  <2> DEFINE u == UserBlock(acc, b)
             Shut == IF acc.cleared THEN {} ELSE ToSet(pending.deferred)
             A == IF acc.cleared THEN {} ELSE answerable
             X == (ToSet(blocks) \cup Earlier) \ (ToSet(acc.texts) \cup Shut)
             t == Append(acc.texts, b)
             Z == (ToSet(blocks) \cup First) \ (ToSet(t) \cup Shut)
  <2>1. /\ acc \in [out : Seq(OpenAIMessage), texts : Seq(ChatBlock), ids : SUBSET Nat,
                    cleared : BOOLEAN]
        /\ IsInjective(acc.texts) /\ ToSet(acc.texts) \subseteq {x \in Earlier : x.kind = "text"}
        /\ Reads(result \o acc.out, X, A, Replayable)
    BY DEF Converted, Earlier
  <2>2. u = [acc EXCEPT !.texts = t]
    BY <1>8 DEF UserBlock
  <2>3. t \in Seq(ChatBlock) /\ ToSet(t) = ToSet(acc.texts) \cup {b} /\ IsInjective(t)
    <3>1. acc.texts \in Seq(ChatBlock) /\ IsInjective(acc.texts) /\ b \notin ToSet(acc.texts)
      BY <1>4, <2>1
    <3> QED
      BY <1>2, <3>1, QueueAppend
  <2> HIDE DEF t
  <2>4. /\ u.texts = t /\ u.out = acc.out /\ u.ids = acc.ids /\ u.cleared = acc.cleared
        /\ u \in [out : Seq(OpenAIMessage), texts : Seq(ChatBlock), ids : SUBSET Nat,
                  cleared : BOOLEAN]
    BY <2>1, <2>2, <2>3
  <2>5. ToSet(t) \subseteq {x \in First : x.kind = "text"}
    BY <1>3, <1>8, <2>1, <2>3
  <2>6. {y \in First : y.kind = "tool_result"} = {y \in Earlier : y.kind = "tool_result"}
    BY <1>3, <1>8
  <2>7. /\ u.ids = pending.ids \ {x.n : x \in {y \in First : y.kind = "tool_result"}}
        /\ u.cleared <=> NeedsDeferred /\ u.ids = {}
    BY <2>4, <2>6 DEF Converted, Earlier
  <2>8. X = Z
    <3> HIDE DEF Shut
    <3> QED
      BY <1>3, <1>4, <1>6, <2>3
  <2>9. Reads(result \o u.out, Z, A, Replayable)
    BY <2>1, <2>4, <2>8
  <2> HIDE DEF u
  <2>10. Converted(u, content, k)
    BY <2>3, <2>4, <2>5, <2>7, <2>9 DEF Converted, First
  <2> QED
    BY <2>10 DEF u, b
<1>9. CASE b.kind = "tool_result" /\ b.n \in answerable
  <2> DEFINE a == FlushText(acc)
             left == a.ids \ {b.n}
             m == ToolMessage(b)
             out == Append(a.out, m)
             u == UserBlock(acc, b)
             ends == NeedsDeferred /\ left = {}
  <2>1. Converted(a, content, k - 1) /\ a.texts = <<>>
    <3>1. a = FlushText(acc)
      OBVIOUS
    <3> HIDE DEF a
    <3> QED
      BY <1>1, <3>1, FlushConverts
  <2>2. u = IF ends
            THEN [a EXCEPT !.out = out \o DeferredMessages(pending), !.ids = left,
                           !.cleared = TRUE]
            ELSE [a EXCEPT !.out = out, !.ids = left]
    BY <1>9 DEF UserBlock, UserResult
  <2> HIDE DEF a, u
  <2> DEFINE X == (ToSet(blocks) \cup Earlier) \ ToSet(pending.deferred)
             Y == (ToSet(blocks) \cup First) \ ToSet(pending.deferred)
  <2>3. ~a.cleared
    <3> SUFFICES ASSUME a.cleared PROVE FALSE
      OBVIOUS
    <3>1. NeedsDeferred /\ a.ids = {}
      BY <2>1 DEF Converted
    <3>2. pending.ids = answerable
      BY <1>9, <3>1 DEF Converting
    <3>3. PICK y \in Earlier : y.kind = "tool_result" /\ y.n = b.n
      <4>1. a.ids = pending.ids \ {x.n : x \in {y \in Earlier : y.kind = "tool_result"}}
        BY <2>1 DEF Converted, Earlier
      <4>2. b.n \in {x.n : x \in {y \in Earlier : y.kind = "tool_result"}}
        BY <1>9, <3>1, <3>2, <4>1
      <4> QED
        BY <4>2
    <3>4. y = b
      BY <1>2, <1>5, <1>9, <3>3 DEF ChatBlock
    <3> QED
      BY <1>4, <3>3, <3>4
  <2>4. /\ a \in [out : Seq(OpenAIMessage), texts : Seq(ChatBlock), ids : SUBSET Nat,
                  cleared : BOOLEAN]
        /\ Reads(result \o a.out, X, answerable, Replayable)
    BY <2>1, <2>3, QueueEmpty DEF Converted, Earlier
  <2>5. Says(m, {b}, Replayable) /\ m.role = "tool" /\ m.content[1] = b /\ m \in OpenAIMessage
    BY <1>2, ToolSays DEF Says
  <2> HIDE DEF m
  <2>6. result \in Seq(OpenAIMessage)
    BY DEF Converting, Reads
  <2>7. /\ out \in Seq(OpenAIMessage)
        /\ result \o out = Append(result \o a.out, m)
    BY <2>4, <2>5, <2>6, ConcatAppends, AppendProperties
  <2>8. Reads(result \o out, Y, answerable, Replayable)
    <3>1. /\ \A x : ~(x \in X /\ x \in {b})
          /\ \A x : x \in Y <=> x \in X \/ x \in {b}
      BY <1>3, <1>4, <1>6, <1>7
    <3> HIDE DEF X, Y, out
    <3>2. Reads(Append(result \o a.out, m), Y, answerable, Replayable)
      BY <1>9, <2>4, <2>5, <3>1, ReadsMore
    <3> QED
      BY <2>7, <3>2
  <2> HIDE DEF out
  <2>9. left = pending.ids \ {x.n : x \in {y \in First : y.kind = "tool_result"}}
    <3>1. a.ids = pending.ids \ {x.n : x \in {y \in Earlier : y.kind = "tool_result"}}
      BY <2>1 DEF Converted, Earlier
    <3>2. \A y : y \in {z \in First : z.kind = "tool_result"} <=>
                     y \in {z \in Earlier : z.kind = "tool_result"} \/ y = b
      BY <1>3, <1>9
    <3> QED
      BY <3>1, <3>2
  <2> HIDE DEF left
  <2>10. left \in SUBSET Nat
    <3>1. a.ids \subseteq Nat
      BY <2>4
    <3> QED
      BY <3>1 DEF left
  <2>11. CASE ends
    <3> DEFINE W == ToSet(blocks) \cup First
    <3>1. /\ u.out = out \o DeferredMessages(pending) /\ u.ids = left /\ u.cleared = TRUE
          /\ u.texts = <<>>
          /\ u = [out |-> u.out, texts |-> <<>>, ids |-> left, cleared |-> TRUE]
      BY <2>1, <2>2, <2>4, <2>11
    <3>2. /\ \A x : ~(x \in Y /\ x \in ToSet(pending.deferred))
          /\ \A x : x \in W <=> x \in Y \/ x \in ToSet(pending.deferred)
      BY DEF Converting
    <3>3. DeferredMessages(pending) \in Seq(OpenAIMessage)
      <4>1. pending.deferred \in Seq(ChatBlock) /\ IsInjective(pending.deferred) /\ pending.top \in Top
            /\ \A x \in ToSet(pending.deferred) : x.kind \in AssistantSaid
        BY DEF Converting, Waiting
      <4> DEFINE d == AssistantMessage(pending.deferred, pending.top)
      <4>2. d \in OpenAIMessage
        BY <4>1, AssistantSays DEF Says
      <4> HIDE DEF d
      <4>3. <<d>> \in Seq(OpenAIMessage) /\ <<>> \in Seq(OpenAIMessage)
        BY <4>2
      <4> QED
        BY <4>3 DEF DeferredMessages, d
    <3>4. Waiting(pending)
      BY DEF Converting
    <3> HIDE DEF W, Y
    <3>5. Reads((result \o out) \o DeferredMessages(pending), W, {}, Replayable)
      BY <2>8, <3>2, <3>4, SendsDeferred
    <3>6. /\ result \o u.out = (result \o out) \o DeferredMessages(pending)
          /\ u.out \in Seq(OpenAIMessage)
      <4>1. u.out \in Seq(OpenAIMessage)
        BY <2>7, <3>1, <3>3, ConcatProperties
      <4>2. result \o (out \o DeferredMessages(pending)) =
                (result \o out) \o DeferredMessages(pending)
        <5>1. /\ result \in Seq(OpenAIMessage) /\ out \in Seq(OpenAIMessage)
              /\ DeferredMessages(pending) \in Seq(OpenAIMessage)
          BY <2>6, <2>7, <3>3
        <5> QED
          BY <5>1, ThreeLists
      <4> QED
        BY <3>1, <4>1, <4>2
    <3>7. /\ u \in [out : Seq(OpenAIMessage), texts : Seq(ChatBlock), ids : SUBSET Nat,
                    cleared : BOOLEAN]
          /\ IsInjective(u.texts) /\ ToSet(u.texts) = {}
      BY <2>10, <3>1, <3>6, QueueEmpty
    <3>8. W = (ToSet(blocks) \cup First) \ (ToSet(u.texts) \cup {})
      BY <3>7 DEF W
    <3>9. u.cleared <=> NeedsDeferred /\ u.ids = {}
      BY <2>11, <3>1
    <3>10. Reads(result \o u.out, W, {}, Replayable)
      BY <3>5, <3>6
    <3> QED
      BY <2>9, <3>1, <3>7, <3>8, <3>9, <3>10 DEF Converted, First, b, u
  <2>12. CASE ~ends
    <3>1. /\ u.out = out /\ u.ids = left /\ u.cleared = FALSE /\ u.texts = <<>>
          /\ u = [out |-> out, texts |-> <<>>, ids |-> left, cleared |-> FALSE]
      BY <2>1, <2>2, <2>3, <2>4, <2>12
    <3>2. /\ u \in [out : Seq(OpenAIMessage), texts : Seq(ChatBlock), ids : SUBSET Nat,
                    cleared : BOOLEAN]
          /\ IsInjective(u.texts) /\ ToSet(u.texts) = {}
      BY <2>7, <2>10, <3>1, QueueEmpty
    <3>3. Y = (ToSet(blocks) \cup First) \ (ToSet(u.texts) \cup ToSet(pending.deferred))
      BY <3>2
    <3>4. u.cleared <=> NeedsDeferred /\ u.ids = {}
      BY <2>12, <3>1
    <3> HIDE DEF Y
    <3>5. Reads(result \o u.out, Y, answerable, Replayable)
      BY <2>8, <3>1
    <3> QED
      BY <2>9, <3>1, <3>2, <3>3, <3>4, <3>5 DEF Converted, First, b, u
  <2> QED
    BY <2>11, <2>12
<1> QED
  BY <1>6, <1>8, <1>9

\* What UserList computes on the way, of the first k blocks.
Walks(content, f, k) ==
    f = [i \in 0..k |->
            IF i = 0
            THEN [out |-> <<>>, texts |-> <<>>, ids |-> pending.ids, cleared |-> FALSE]
            ELSE UserBlock(f[i - 1], content[i])]

LEMMA WalkAt ==
    ASSUME NEW content, NEW n \in Nat, NEW f, Walks(content, f, n)
    PROVE  /\ f[0] = [out |-> <<>>, texts |-> <<>>, ids |-> pending.ids, cleared |-> FALSE]
           /\ \A k \in 1..n : f[k] = UserBlock(f[k - 1], content[k])
<1> DEFINE Entry(i) == IF i = 0
                       THEN [out |-> <<>>, texts |-> <<>>, ids |-> pending.ids,
                             cleared |-> FALSE]
                       ELSE UserBlock(f[i - 1], content[i])
<1>1. f = [i \in 0..n |-> Entry(i)]
  BY DEF Walks
<1>2. \A k \in 1..n : k \in 0..n /\ k # 0
  OBVIOUS
<1>3. \A k \in 0..n : f[k] = Entry(k)
  <2> HIDE DEF Entry
  <2> QED
    BY <1>1
<1>4. f[0] = Entry(0) /\ \A k \in 1..n : f[k] = Entry(k)
  <2> HIDE DEF Entry
  <2> QED
    BY <1>2, <1>3
<1> QED
  BY <1>2, <1>4

LEMMA WalkExists ==
    ASSUME NEW content, NEW n \in Nat
    PROVE  \E f : Walks(content, f, n)
<1> DEFINE Start == [out |-> <<>>, texts |-> <<>>, ids |-> pending.ids, cleared |-> FALSE]
           P == {k \in 0..n : \E f : Walks(content, f, k)}
<1>1. 0 \in P
  <2>1. Walks(content, [i \in 0..0 |-> Start], 0)
    BY DEF Walks
  <2> QED
    BY <2>1
<1>2. ASSUME NEW k \in 1..n, k - 1 \in P PROVE k \in P
  <2>1. PICK f : Walks(content, f, k - 1)
    BY <1>2
  <2> DEFINE g == [i \in 0..k |-> IF i < k THEN f[i] ELSE UserBlock(f[k - 1], content[k])]
             h == [i \in 0..k |-> IF i = 0 THEN Start ELSE UserBlock(g[i - 1], content[i])]
  <2>2. f[0] = Start /\ \A i \in 1..k - 1 : f[i] = UserBlock(f[i - 1], content[i])
    <3>1. k - 1 \in Nat
      OBVIOUS
    <3> QED
      BY <2>1, <3>1, WalkAt
  <2> HIDE DEF Start, P
  <2>3. ASSUME NEW i \in 0..k PROVE g[i] = h[i]
    <3>1. CASE i = k
      BY <3>1
    <3>2. CASE i # k
      <4>1. i \in 0..k - 1 /\ g[i] = f[i]
        BY <3>2
      <4>2. i # 0 => g[i - 1] = f[i - 1] /\ i \in 1..k - 1
        BY <4>1
      <4> HIDE DEF g
      <4> QED
        BY <4>1, <4>2, <2>2
    <3> QED
      BY <3>1, <3>2
  <2>4. g = h
    BY <2>3
  <2>5. Walks(content, g, k)
    <3> HIDE DEF g
    <3> QED
      BY <2>4 DEF Walks, Start
  <2> QED
    BY <2>5 DEF P
<1> QED
  <2> HIDE DEF P
  <2>1. 0..n \subseteq P
    BY <1>1, <1>2, Reaches
  <2> QED
    BY <2>1 DEF P

LEMMA UserListConverts ==
    ASSUME reasoning_replay \in Modes, Converting, NEW content, UserSends(content),
           NEW user, user = UserList(content)
    PROVE  Converted(user, content, Len(content)) /\ user.texts = <<>>
<1> DEFINE n == Len(content)
           f == CHOOSE g : Walks(content, g, n)
           Start == [out |-> <<>>, texts |-> <<>>, ids |-> pending.ids, cleared |-> FALSE]
<1>1. n \in Nat
  BY LenProperties DEF UserSends
<1>2. Walks(content, f, n)
  BY <1>1, WalkExists
<1>3. user = FlushText(f[n])
  BY DEF UserList, Walks
<1> HIDE DEF f, n
<1>4. f[0] = Start /\ \A k \in 1..n : f[k] = UserBlock(f[k - 1], content[k])
  BY <1>1, <1>2, WalkAt
<1> DEFINE P == {k \in 0..n : Converted(f[k], content, k)}
<1>5. 0 \in P
  <2>1. /\ <<>> \in Seq(OpenAIMessage) /\ <<>> \in Seq(ChatBlock) /\ IsInjective(<<>>)
        /\ ToSet(<<>>) = {} /\ FirstOf(content, 0) = {}
    BY QueueEmpty DEF FirstOf
  <2>2. result \in Seq(OpenAIMessage)
        /\ Reads(result, ToSet(blocks) \ ToSet(pending.deferred), answerable, Replayable)
    BY DEF Converting, Reads
  <2>3. result \o <<>> = result
    BY <2>2, ConcatEmptySeq
  <2>4. pending.ids \subseteq Nat /\ (NeedsDeferred => pending.ids # {})
    BY DEF Converting, Waiting
  <2>5. (ToSet(blocks) \cup {}) \ ({} \cup ToSet(pending.deferred)) =
            ToSet(blocks) \ ToSet(pending.deferred)
    OBVIOUS
  <2>6. Converted(Start, content, 0)
    BY <2>1, <2>2, <2>3, <2>4, <2>5 DEF Converted
  <2> QED
    BY <1>1, <1>4, <2>6
<1>6. ASSUME NEW k \in 1..n, k - 1 \in P PROVE k \in P
  <2>1. Converted(f[k - 1], content, k - 1) /\ k \in 1..Len(content) /\ k \in 0..n
    BY <1>1, <1>6 DEF n
  <2>2. Converted(UserBlock(f[k - 1], content[k]), content, k)
    BY <2>1, BlockConverts
  <2> QED
    BY <1>4, <2>1, <2>2
<1> HIDE DEF P
<1>7. 0..n \subseteq P
  BY <1>1, <1>5, <1>6, Reaches
<1>8. Converted(f[n], content, n) /\ n \in 0..Len(content)
  BY <1>1, <1>7 DEF P, n
<1> QED
  BY <1>3, <1>8, FlushConverts DEF n

-----------------------------------------------------------------------------
(* The steps. *)

LEMMA JoinedSets ==
    ASSUME NEW T, NEW q \in Seq(T), NEW r \in Seq(T)
    PROVE  /\ q \o r \in Seq(T) /\ Len(q \o r) = Len(q) + Len(r)
           /\ Len(q) \in Nat /\ Len(r) \in Nat
           /\ ToSet(q \o r) = ToSet(q) \cup ToSet(r)
<1> DEFINE s == q \o r
           n == Len(q)
           m == Len(r)
<1>1. /\ s \in Seq(T) /\ Len(s) = n + m /\ n \in Nat /\ m \in Nat
      /\ \A i \in 1..n + m : s[i] = IF i <= n THEN q[i] ELSE r[i - n]
      /\ DOMAIN s = 1..n + m /\ DOMAIN q = 1..n /\ DOMAIN r = 1..m
  BY ConcatProperties, LenProperties
<1> HIDE DEF s, n, m
<1>2. ASSUME NEW i \in 1..n PROVE i \in 1..n + m /\ s[i] = q[i]
  BY <1>1
<1>3. ASSUME NEW i \in 1..m PROVE n + i \in 1..n + m /\ s[n + i] = r[i]
  BY <1>1
<1>4. ASSUME NEW i \in 1..n + m
      PROVE  \/ i \in 1..n /\ s[i] = q[i]
             \/ i - n \in 1..m /\ s[i] = r[i - n]
  BY <1>1
<1>5. ASSUME NEW x PROVE x \in ToSet(s) <=> x \in ToSet(q) \/ x \in ToSet(r)
  <2>1. ASSUME x \in ToSet(s) PROVE x \in ToSet(q) \/ x \in ToSet(r)
    <3>1. PICK i \in 1..n + m : s[i] = x
      BY <1>1, <2>1 DEF ToSet
    <3> QED
      BY <3>1, <1>1, <1>4 DEF ToSet
  <2>2. x \in ToSet(q) => x \in ToSet(s)
    BY <1>1, <1>2 DEF ToSet
  <2>3. ASSUME x \in ToSet(r) PROVE x \in ToSet(s)
    <3>1. PICK i \in 1..m : r[i] = x
      BY <1>1, <2>3 DEF ToSet
    <3> QED
      BY <3>1, <1>1, <1>3 DEF ToSet
  <2> QED
    BY <2>1, <2>2, <2>3
<1>6. ToSet(s) = ToSet(q) \cup ToSet(r)
  BY <1>5
<1> QED
  BY <1>1, <1>6 DEF s, n, m

LEMMA NumberedIs ==
    ASSUME NEW k \in Nat, NEW kinds, DOMAIN kinds = 1..k,
           \A i \in 1..k : kinds[i] \in AssistantKind, Len(blocks) \in Nat,
           NEW content, content = Numbered(kinds)
    PROVE  /\ content \in Seq(ChatBlock) /\ Len(content) = k /\ IsInjective(content)
           /\ \A i \in 1..k : content[i].kind = kinds[i]
           /\ \A b \in ToSet(content) :
                 /\ b.kind \in AssistantKind
                 /\ b.n \in Len(blocks) + 1..Len(blocks) + k
<1> DEFINE n == Len(blocks)
<1>1. content = [i \in 1..k |-> [kind |-> kinds[i], n |-> n + i]]
  BY DEF Numbered
<1> HIDE DEF n
<1>2. n \in Nat
  BY DEF n
<1>3. \A i \in 1..k : content[i] = [kind |-> kinds[i], n |-> n + i] /\ n + i \in n + 1..n + k
  BY <1>1, <1>2
<1>4. \A i \in 1..k : content[i] \in ChatBlock /\ content[i].kind = kinds[i] /\ content[i].n = n + i
  <2> SUFFICES ASSUME NEW i \in 1..k
               PROVE  /\ content[i] \in ChatBlock
                      /\ content[i].kind = kinds[i] /\ content[i].n = n + i
    OBVIOUS
  <2>1. kinds[i] \in AssistantKind /\ n + i \in Nat
    BY <1>2
  <2>2. content[i] = [kind |-> kinds[i], n |-> n + i]
    BY <1>3
  <2> QED
    BY <2>1, <2>2 DEF ChatBlock, AssistantKind
<1>5. content \in [1..k -> ChatBlock]
  BY <1>1, <1>4
<1>6. content \in Seq(ChatBlock)
  BY <1>5, SeqDef
<1>7. DOMAIN content = 1..k /\ Len(content) = k
  <2>1. DOMAIN content = 1..k /\ DOMAIN content = 1..Len(content) /\ Len(content) \in Nat
    BY <1>1, <1>6, LenProperties
  <2> QED
    BY <2>1
<1>8. IsInjective(content)
  BY <1>2, <1>4, <1>7 DEF IsInjective
<1>9. ASSUME NEW b \in ToSet(content) PROVE b.kind \in AssistantKind /\ b.n \in n + 1..n + k
  <2>1. PICK i \in 1..k : b = content[i]
    BY <1>7 DEF ToSet
  <2> QED
    BY <2>1, <1>3, <1>4
<1> QED
  BY <1>4, <1>6, <1>7, <1>8, <1>9 DEF n

\* What the client sends is behind what it sent.
LEMMA SendIs ==
    ASSUME Converting, NEW content \in Seq(ChatBlock), Send(content),
           \A b \in ToSet(content) : b.n <= Len(blocks) + Len(content)
    PROVE  /\ blocks' \in Seq(ChatBlock) /\ Len(blocks) \in Nat /\ Len(blocks') \in Nat
           /\ Len(blocks') = Len(blocks) + Len(content)
           /\ ToSet(blocks') = ToSet(blocks) \cup ToSet(content)
           /\ \A b \in ToSet(blocks') : b.n <= Len(blocks')
           /\ 1..Len(blocks) \subseteq 1..Len(blocks')
           /\ Replayable' = Replayable /\ reasoning_replay' = reasoning_replay
<1>1. blocks' = blocks \o content /\ reasoning_replay' = reasoning_replay
  BY DEF Send
<1>2. blocks \in Seq(ChatBlock) /\ \A b \in ToSet(blocks) : b.n <= Len(blocks)
  BY DEF Converting
<1>3. /\ blocks' \in Seq(ChatBlock) /\ Len(blocks') = Len(blocks) + Len(content)
      /\ Len(blocks) \in Nat /\ Len(content) \in Nat
      /\ ToSet(blocks') = ToSet(blocks) \cup ToSet(content)
  BY <1>1, <1>2, JoinedSets
<1>4. ASSUME NEW b \in ToSet(blocks') PROVE b.n <= Len(blocks')
  <2>1. b.n \in Nat
    <3>1. DOMAIN blocks' = 1..Len(blocks') /\ \A i \in DOMAIN blocks' : blocks'[i] \in ChatBlock
      BY <1>3, LenProperties, ElementOfSeq
    <3> QED
      BY <3>1 DEF ToSet, ChatBlock
  <2> QED
    BY <1>2, <1>3, <2>1
<1>5. Replayable' = Replayable
  BY <1>1 DEF Replayable, ReplayedKind
<1> QED
  BY <1>1, <1>3, <1>4, <1>5

LEMMA ReplayedSoFar ==
    ASSUME reasoning_replay \in Modes, Converting
    PROVE  Reads(Replayed, ToSet(blocks), {}, Replayable)
<1>1. /\ Waiting(pending) /\ ToSet(pending.deferred) \subseteq ToSet(blocks)
      /\ Reads(result, ToSet(blocks) \ ToSet(pending.deferred), answerable, Replayable)
  BY DEF Converting
<1> QED
  BY <1>1, SendsDeferred DEF Replayed

\* A list of the assistant's: numbered, so new.
Fresh(content) ==
    /\ content \in Seq(ChatBlock) /\ IsInjective(content)
    /\ \A b \in ToSet(content) :
          b.kind \in AssistantKind /\ b.n \in Len(blocks) + 1..Len(blocks) + Len(content)

LEMMA FreshIsNew ==
    ASSUME Converting, NEW content, Fresh(content), Send(content)
    PROVE  /\ blocks' \in Seq(ChatBlock)
           /\ ToSet(blocks') = ToSet(blocks) \cup ToSet(content)
           /\ \A b \in ToSet(blocks') : b.n <= Len(blocks')
           /\ 1..Len(blocks) \subseteq 1..Len(blocks')
           /\ \A x : ~(x \in ToSet(blocks) /\ x \in ToSet(content))
           /\ \A b \in ToSet(content) : b.n \in 1..Len(blocks') /\ b.n \notin 1..Len(blocks)
           /\ \A b \in ToSet(blocks') : b.kind = "tool_result" => b \in ToSet(blocks)
           /\ Replayable' = Replayable /\ reasoning_replay' = reasoning_replay
<1>1. /\ content \in Seq(ChatBlock) /\ Len(blocks) \in Nat /\ Len(content) \in Nat
      /\ \A b \in ToSet(content) :
            b.kind \in AssistantKind /\ b.n \in Len(blocks) + 1..Len(blocks) + Len(content)
      /\ \A b \in ToSet(blocks) : b.n <= Len(blocks)
  BY LenProperties DEF Fresh, Converting
<1>2. \A b \in ToSet(content) : /\ b.n <= Len(blocks) + Len(content)
                                /\ ~(b.n <= Len(blocks))
                                /\ b.n \in 1..Len(blocks) + Len(content)
  BY <1>1
<1>3. /\ blocks' \in Seq(ChatBlock)
      /\ Len(blocks') = Len(blocks) + Len(content)
      /\ ToSet(blocks') = ToSet(blocks) \cup ToSet(content)
      /\ \A b \in ToSet(blocks') : b.n <= Len(blocks')
      /\ 1..Len(blocks) \subseteq 1..Len(blocks')
      /\ Replayable' = Replayable /\ reasoning_replay' = reasoning_replay
  BY <1>1, <1>2, SendIs
<1>4. \A x : ~(x \in ToSet(blocks) /\ x \in ToSet(content))
  BY <1>1, <1>2
<1>5. \A b \in ToSet(content) : b.n \in 1..Len(blocks') /\ b.n \notin 1..Len(blocks)
  BY <1>1, <1>2, <1>3
<1>6. \A b \in ToSet(blocks') : b.kind = "tool_result" => b \in ToSet(blocks)
  BY <1>1, <1>3 DEF AssistantKind
<1> QED
  BY <1>3, <1>4, <1>5, <1>6

LEMMA StepAssistantList ==
    ASSUME reasoning_replay \in Modes, Converting,
           NEW content, Fresh(content), NEW top \in Top, AssistantList(content, top)
    PROVE  Converting'
<1> DEFINE calls == OfKind(content, {"tool_use"})
           m == IF calls = <<>> THEN AssistantMessage(content, top)
                ELSE SplitMessage(content, top)
           p == IF calls = <<>> THEN NoPending ELSE Deferred(content, top)
<1>1. /\ Send(content) /\ result' = Replayed \o <<m>> /\ pending' = p
      /\ answerable' = {b.n : b \in ToSet(calls)}
      /\ OfKind(content, {"image"}) = <<>>
  BY DEF AssistantList, Replayed
<1>2. /\ content \in Seq(ChatBlock) /\ IsInjective(content)
      /\ \A b \in ToSet(content) : b.kind \in AssistantKind
  BY DEF Fresh
<1>3. /\ blocks' \in Seq(ChatBlock)
      /\ ToSet(blocks') = ToSet(blocks) \cup ToSet(content)
      /\ \A b \in ToSet(blocks') : b.n <= Len(blocks')
      /\ 1..Len(blocks) \subseteq 1..Len(blocks')
      /\ \A x : ~(x \in ToSet(blocks) /\ x \in ToSet(content))
      /\ \A b \in ToSet(content) : b.n \in 1..Len(blocks') /\ b.n \notin 1..Len(blocks)
      /\ \A b \in ToSet(blocks') : b.kind = "tool_result" => b \in ToSet(blocks)
      /\ Replayable' = Replayable
  BY <1>1, FreshIsNew
<1>4. \A b \in ToSet(content) : b.kind \in AssistantSaid
  <2>1. \A x : ~(x \in ToSet(content) /\ x.kind \in {"image"})
    BY <1>1, <1>2, OfKindIs, QueueEmpty
  <2> QED
    BY <1>2, <2>1 DEF AssistantKind, AssistantSaid
<1>5. /\ calls \in Seq(ChatBlock)
      /\ \A x : x \in ToSet(calls) <=> x \in ToSet(content) /\ x.kind = "tool_use"
  BY <1>2, OfKindIs
<1> HIDE DEF calls
<1>6. /\ Says(m, ToSet(content) \ ToSet(p.deferred), Replayable) /\ m.role = "assistant"
      /\ answerable' \subseteq CallsOf(m)
      /\ Waiting(p) /\ ToSet(p.deferred) \subseteq ToSet(content)
      /\ p.deferred # <<>> => p.ids = answerable' /\ p.ids # {}
  <2>1. CASE calls = <<>>
    <3>1. /\ Says(AssistantMessage(content, top), ToSet(content), Replayable)
          /\ AssistantMessage(content, top).role = "assistant"
      BY <1>2, <1>4, AssistantSays
    <3>2. ToSet(content) \ {} = ToSet(content) /\ answerable' = {}
      BY <1>1, <2>1, QueueEmpty
    <3> QED
      BY <2>1, <3>1, <3>2, NoneWaits
  <2>2. CASE calls # <<>>
    <3>1. PICK t \in ToSet(content) : t.kind = "tool_use"
      <4>1. ToSet(calls) # {}
        BY <1>5, <2>2, QueueOfNobody
      <4> QED
        BY <1>5, <4>1
    <3>2. m = SplitMessage(content, top) /\ p = Deferred(content, top)
      BY <2>2
    <3> HIDE DEF m, p
    <3> QED
      BY <1>1, <1>2, <1>4, <3>1, <3>2, SplitSays DEF calls
  <2> QED
    BY <2>1, <2>2
<1> HIDE DEF m, p
<1>7. Reads(Replayed, ToSet(blocks), {}, Replayable) /\ Replayed \in Seq(OpenAIMessage)
  BY ReplayedSoFar DEF Reads
<1>8. Replayed \o <<m>> = Append(Replayed, m)
  BY <1>6, <1>7, ConcatAppends DEF Says
<1> DEFINE Y == ToSet(content) \ ToSet(p.deferred)
           Z == ToSet(blocks') \ ToSet(p.deferred)
<1>9. /\ \A x : ~(x \in ToSet(blocks) /\ x \in Y)
      /\ \A x : x \in Z <=> x \in ToSet(blocks) \/ x \in Y
  BY <1>3, <1>6
<1>10. Says(m, Y, Replayable)
  BY <1>6
<1> HIDE DEF Y, Z
<1>11. Reads(Append(Replayed, m), Z, answerable', Replayable)
  BY <1>6, <1>7, <1>9, <1>10, ReadsMore
<1>12. answerable' \subseteq 1..Len(blocks')
  BY <1>1, <1>3, <1>5
<1>13. ASSUME NEW b \in ToSet(blocks'), b.kind = "tool_result" PROVE b.n \notin answerable'
  <2>1. b \in ToSet(blocks)
    BY <1>3, <1>13
  <2>2. b.n \in Nat /\ b.n <= Len(blocks)
    <3>1. DOMAIN blocks = 1..Len(blocks) /\ \A i \in DOMAIN blocks : blocks[i] \in ChatBlock
      BY LenProperties, ElementOfSeq DEF Converting
    <3> QED
      BY <2>1, <3>1 DEF ToSet, ChatBlock, Converting
  <2> SUFFICES ASSUME NEW x \in ToSet(content), x.n = b.n PROVE FALSE
    BY <1>1, <1>5
  <2>3. x.n \in 1..Len(blocks') /\ x.n \notin 1..Len(blocks)
    BY <1>3
  <2> QED
    BY <2>2, <2>3, LenProperties DEF Converting
<1>14. (NeedsDeferred)' => pending'.ids # {} /\ (answerable' # {} => pending'.ids = answerable')
  BY <1>1, <1>6 DEF NeedsDeferred
<1>15. /\ Waiting(pending') /\ ToSet(pending'.deferred) \subseteq ToSet(blocks')
       /\ Reads(result', ToSet(blocks') \ ToSet(pending'.deferred), answerable', Replayable')
  BY <1>1, <1>3, <1>6, <1>8, <1>11 DEF Z
<1> QED
  BY <1>3, <1>12, <1>13, <1>14, <1>15 DEF Converting

\* A plain string is one text.
LEMMA StringIsFresh ==
    ASSUME Converting, NEW content, content = Numbered(<<"text">>), Send(content)
    PROVE  /\ Fresh(content) /\ ToSet(content) = {content[1]}
           /\ content[1] \in ChatBlock /\ content[1].kind = "text"
<1> DEFINE kinds == <<"text">>
<1>1. Len(blocks) \in Nat
  BY LenProperties DEF Converting
<1>2. /\ DOMAIN kinds = 1..1 /\ content = Numbered(kinds)
      /\ \A i \in 1..1 : kinds[i] \in AssistantKind /\ kinds[i] = "text"
  BY DEF AssistantKind
<1> HIDE DEF kinds
<1>3. /\ content \in Seq(ChatBlock) /\ Len(content) = 1 /\ IsInjective(content)
      /\ \A i \in 1..1 : content[i].kind = "text"
      /\ \A b \in ToSet(content) :
            b.kind \in AssistantKind /\ b.n \in Len(blocks) + 1..Len(blocks) + 1
  <2>1. 1 \in Nat
    OBVIOUS
  <2>2. /\ content \in Seq(ChatBlock) /\ Len(content) = 1 /\ IsInjective(content)
        /\ \A i \in 1..1 : content[i].kind = kinds[i]
        /\ \A b \in ToSet(content) :
              b.kind \in AssistantKind /\ b.n \in Len(blocks) + 1..Len(blocks) + 1
    BY <1>1, <1>2, <2>1, NumberedIs
  <2> QED
    BY <1>2, <2>2
<1>4. DOMAIN content = 1..1 /\ 1 \in 1..1 /\ content[1] \in ChatBlock
  BY <1>3, LenProperties, ElementOfSeq
<1>5. ToSet(content) = {content[1]}
  BY <1>4 DEF ToSet
<1> QED
  BY <1>3, <1>4, <1>5 DEF Fresh

LEMMA StepAssistantString ==
    ASSUME reasoning_replay \in Modes, Converting, NEW top \in Top, AssistantString(top)
    PROVE  Converting'
<1> DEFINE content == Numbered(<<"text">>)
           m == StringMessage("assistant", content[1], top)
           D == ToSet(pending.deferred)
<1>1. /\ Send(content) /\ result' = Append(result, m) /\ answerable' = {} /\ pending' = pending
  BY DEF AssistantString
<1>2. /\ Fresh(content) /\ ToSet(content) = {content[1]}
      /\ content[1] \in ChatBlock /\ content[1].kind = "text"
  BY <1>1, StringIsFresh
<1>3. /\ blocks' \in Seq(ChatBlock)
      /\ ToSet(blocks') = ToSet(blocks) \cup ToSet(content)
      /\ \A b \in ToSet(blocks') : b.n <= Len(blocks')
      /\ \A x : ~(x \in ToSet(blocks) /\ x \in ToSet(content))
      /\ Replayable' = Replayable
  BY <1>1, <1>2, FreshIsNew
<1>4. Says(m, ToSet(content), Replayable) /\ m.role = "assistant"
  BY <1>2, StringSays
<1> HIDE DEF content, m
<1>5. /\ Waiting(pending) /\ D \subseteq ToSet(blocks)
      /\ Reads(result, ToSet(blocks) \ D, answerable, Replayable)
  BY DEF Converting
<1> HIDE DEF D
<1>6. /\ \A x : ~(x \in ToSet(blocks) \ D /\ x \in ToSet(content))
      /\ \A x : x \in ToSet(blocks') \ D <=> x \in ToSet(blocks) \ D \/ x \in ToSet(content)
  BY <1>3, <1>5
<1>7. Reads(Append(result, m), ToSet(blocks') \ D, {}, Replayable)
  BY <1>4, <1>5, <1>6, ReadsMore
<1>8. /\ (NeedsDeferred)' => pending'.ids # {}
      /\ Waiting(pending') /\ ToSet(pending'.deferred) \subseteq ToSet(blocks')
      /\ Reads(result', ToSet(blocks') \ ToSet(pending'.deferred), answerable', Replayable')
  BY <1>1, <1>3, <1>5, <1>7 DEF D, NeedsDeferred, Converting
<1> QED
  BY <1>1, <1>3, <1>8 DEF Converting

LEMMA StepUserString ==
    ASSUME reasoning_replay \in Modes, Converting, UserString
    PROVE  Converting'
<1> DEFINE content == Numbered(<<"text">>)
           m == StringMessage("user", content[1], <<>>)
<1>1. /\ Send(content) /\ result' = Replayed \o <<m>> /\ answerable' = {} /\ pending' = NoPending
  BY DEF UserString, Replayed
<1>2. /\ Fresh(content) /\ ToSet(content) = {content[1]}
      /\ content[1] \in ChatBlock /\ content[1].kind = "text"
  BY <1>1, StringIsFresh
<1>3. /\ blocks' \in Seq(ChatBlock)
      /\ ToSet(blocks') = ToSet(blocks) \cup ToSet(content)
      /\ \A b \in ToSet(blocks') : b.n <= Len(blocks')
      /\ \A x : ~(x \in ToSet(blocks) /\ x \in ToSet(content))
      /\ Replayable' = Replayable
  BY <1>1, <1>2, FreshIsNew
<1>4. Says(m, ToSet(content), Replayable) /\ m.role = "user"
  BY <1>2, StringSays DEF Top
<1> HIDE DEF content, m
<1>5. Reads(Replayed, ToSet(blocks), {}, Replayable) /\ Replayed \in Seq(OpenAIMessage)
  BY ReplayedSoFar DEF Reads
<1>6. Replayed \o <<m>> = Append(Replayed, m)
  BY <1>4, <1>5, ConcatAppends DEF Says
<1>7. Reads(Append(Replayed, m), ToSet(blocks'), {}, Replayable)
  BY <1>3, <1>4, <1>5, ReadsMore
<1>8. ToSet(blocks') \ {} = ToSet(blocks')
  OBVIOUS
<1>9. /\ ~(NeedsDeferred)'
      /\ Waiting(pending') /\ ToSet(pending'.deferred) = {}
      /\ Reads(result', ToSet(blocks') \ ToSet(pending'.deferred), answerable', Replayable')
  BY <1>1, <1>3, <1>6, <1>7, <1>8, NoneWaits DEF NeedsDeferred
<1> QED
  BY <1>1, <1>3, <1>9 DEF Converting

\* A list of the client's: its texts are numbered, its results answer calls that
\* may still be answered, each once.
LEMMA UserContentIs ==
    ASSUME Converting, NEW k \in Nat, NEW s \in UserContents(k),
           NEW content, content = NumberTexts(s)
    PROVE  /\ UserSends(content) /\ Len(content) = k
           /\ \A b \in ToSet(content) : b.n <= Len(blocks) + k
<1> DEFINE n == Len(blocks)
<1>1. /\ DOMAIN s = 1..k
      /\ \A i \in 1..k : \/ s[i].kind = "text"
                         \/ /\ s[i] \in [kind : {"tool_result"}, n : answerable]
                            /\ s[i].kind = "tool_result" /\ s[i].n \in answerable
      /\ \A i, j \in 1..k : i # j /\ s[i] = s[j] => s[i].kind = "text"
  BY DEF UserContents
<1>2. content = [i \in 1..k |-> IF s[i].kind = "text"
                                THEN [kind |-> "text", n |-> n + i] ELSE s[i]]
  BY <1>1 DEF NumberTexts
<1>3. /\ n \in Nat /\ answerable \subseteq 1..n
      /\ \A b \in ToSet(blocks) : b.n <= n
      /\ \A b \in ToSet(blocks) : b.kind = "tool_result" => b.n \notin answerable
  BY LenProperties DEF Converting
<1> HIDE DEF n
<1>4. ASSUME NEW i \in 1..k
      PROVE  \/ /\ content[i] = [kind |-> "text", n |-> n + i]
                /\ content[i].kind = "text" /\ content[i].n = n + i
             \/ /\ content[i] = s[i] /\ s[i] \in [kind : {"tool_result"}, n : answerable]
                /\ content[i].kind = "tool_result" /\ content[i].n \in answerable
  BY <1>1, <1>2
<1>5. ASSUME NEW i \in 1..k PROVE content[i] \in ChatBlock /\ content[i].n <= n + k
  <2>1. n + i \in Nat /\ n + i <= n + k
    BY <1>3
  <2>2. \A c \in answerable : c \in Nat /\ c <= n + k
    BY <1>3
  <2>3. [kind |-> "text", n |-> n + i] \in ChatBlock
    BY <2>1 DEF ChatBlock
  <2>4. [kind : {"tool_result"}, n : answerable] \subseteq ChatBlock
    BY <2>2 DEF ChatBlock
  <2> QED
    BY <1>4, <2>1, <2>2, <2>3, <2>4
<1>6. content \in Seq(ChatBlock)
  <2>1. content \in [1..k -> ChatBlock]
    BY <1>2, <1>5
  <2> QED
    BY <2>1, SeqDef
<1>7. DOMAIN content = 1..k /\ Len(content) = k
  <2>1. DOMAIN content = 1..k /\ DOMAIN content = 1..Len(content) /\ Len(content) \in Nat
    BY <1>2, <1>6, LenProperties
  <2> QED
    BY <2>1
<1>8. ASSUME NEW i \in 1..k, NEW j \in 1..k, content[i] = content[j] PROVE i = j
  <2>1. CASE content[i].kind = "text"
    <3>1. content[i].n = n + i /\ content[j].n = n + j
      BY <1>4, <1>8, <2>1
    <3> QED
      BY <1>3, <1>8, <3>1
  <2>2. CASE content[i].kind # "text"
    <3>1. content[i] = s[i] /\ content[j] = s[j]
      BY <1>4, <1>8, <2>2
    <3> QED
      BY <1>1, <1>8, <2>2, <3>1
  <2> QED
    BY <2>1, <2>2
<1>9. ASSUME NEW b \in ToSet(content)
      PROVE  /\ b \notin ToSet(blocks) /\ b.n <= n + k
             /\ b.kind = "text" \/ (b.kind = "tool_result" /\ b.n \in answerable)
  <2>1. PICK i \in 1..k : b = content[i]
    BY <1>7 DEF ToSet
  <2>2. ~(n + i <= n)
    BY <1>3
  <2> QED
    BY <1>3, <1>4, <1>5, <2>1, <2>2
<1> QED
  BY <1>6, <1>7, <1>8, <1>9 DEF UserSends, IsInjective, n

LEMMA StepUserMessageList ==
    ASSUME reasoning_replay \in Modes, Converting,
           NEW k \in Nat, NEW s \in UserContents(k), UserMessageList(NumberTexts(s))
    PROVE  Converting'
<1> DEFINE content == NumberTexts(s)
           user == UserList(content)
           answers == OfKind(content, {"tool_result"})
<1>1. /\ Send(content) /\ result' = result \o user.out
      /\ pending' = IF user.cleared THEN NoPending ELSE [pending EXCEPT !.ids = user.ids]
      /\ answerable' = answerable \ {b.n : b \in ToSet(answers)}
  BY DEF UserMessageList
<1> HIDE DEF user, content
<1>2. /\ UserSends(content) /\ Len(content) = k
      /\ \A b \in ToSet(content) : b.n <= Len(blocks) + k
  BY UserContentIs DEF content
<1>3. /\ content \in Seq(ChatBlock)
      /\ \A b \in ToSet(content) :
            /\ b \notin ToSet(blocks)
            /\ b.kind = "text" \/ (b.kind = "tool_result" /\ b.n \in answerable)
  BY <1>2 DEF UserSends
<1>4. /\ blocks' \in Seq(ChatBlock)
      /\ ToSet(blocks') = ToSet(blocks) \cup ToSet(content)
      /\ \A b \in ToSet(blocks') : b.n <= Len(blocks')
      /\ 1..Len(blocks) \subseteq 1..Len(blocks')
      /\ Replayable' = Replayable
  BY <1>1, <1>2, <1>3, SendIs
<1>5. Converted(user, content, Len(content)) /\ user.texts = <<>>
  BY <1>2, UserListConverts DEF user
<1>6. FirstOf(content, Len(content)) = ToSet(content)
  BY <1>3, LenProperties DEF FirstOf, ToSet
<1>7. \A x : x \in ToSet(answers) <=> x \in ToSet(content) /\ x.kind = "tool_result"
  BY <1>3, OfKindIs
<1> HIDE DEF answers
<1> DEFINE Heard == {b.n : b \in ToSet(answers)}
           D == ToSet(pending.deferred)
           Shut == IF user.cleared THEN {} ELSE D
<1>8. user.ids = pending.ids \ Heard /\ user.ids \subseteq Nat /\ user.cleared \in BOOLEAN
  <2>1. ToSet(answers) = {x \in ToSet(content) : x.kind = "tool_result"}
    BY <1>7
  <2> QED
    BY <1>5, <1>6, <2>1 DEF Converted
<1>9. user.cleared <=> NeedsDeferred /\ user.ids = {}
  BY <1>5 DEF Converted
<1>10. Reads(result', ToSet(blocks') \ Shut, IF user.cleared THEN {} ELSE answerable, Replayable)
  <2>1. (ToSet(blocks) \cup ToSet(content)) \ (ToSet(<<>>) \cup Shut) = ToSet(blocks') \ Shut
    BY <1>4, QueueEmpty
  <2> HIDE DEF Shut
  <2> QED
    BY <1>1, <1>5, <1>6, <2>1 DEF Converted, Shut, D
<1>11. /\ Waiting(pending) /\ D \subseteq ToSet(blocks) /\ answerable \subseteq 1..Len(blocks)
       /\ NeedsDeferred => pending.ids # {} /\ (answerable # {} => pending.ids = answerable)
       /\ \A b \in ToSet(blocks) : b.kind = "tool_result" => b.n \notin answerable
  BY DEF Converting
<1>12. answerable' = answerable \ Heard
  BY <1>1
<1>13. ASSUME NEW b \in ToSet(blocks'), b.kind = "tool_result" PROVE b.n \notin answerable'
  <2>1. CASE b \in ToSet(blocks)
    BY <1>11, <1>12, <1>13, <2>1
  <2>2. CASE b \in ToSet(content)
    BY <1>7, <1>12, <1>13, <2>2
  <2> QED
    BY <1>4, <2>1, <2>2
<1> HIDE DEF Heard, Shut, D
<1>14. answerable' \subseteq 1..Len(blocks')
  BY <1>4, <1>11, <1>12
<1>15. /\ (NeedsDeferred)' => pending'.ids # {} /\ (answerable' # {} => pending'.ids = answerable')
       /\ Waiting(pending') /\ ToSet(pending'.deferred) \subseteq ToSet(blocks')
       /\ Reads(result', ToSet(blocks') \ ToSet(pending'.deferred), answerable', Replayable')
  <2>1. CASE user.cleared
    <3>1. answerable' = {}
      BY <1>8, <1>9, <1>11, <1>12, <2>1
    <3>2. pending' = NoPending
      BY <1>1, <2>1
    <3> QED
      BY <1>4, <1>10, <2>1, <3>1, <3>2, NoneWaits DEF NeedsDeferred, Shut
  <2>2. CASE ~user.cleared
    <3>1. /\ pending' = [pending EXCEPT !.ids = user.ids]
          /\ pending'.deferred = pending.deferred /\ pending'.ids = user.ids
          /\ pending'.top = pending.top
          /\ Waiting(pending')
      BY <1>1, <1>8, <1>11, <2>2 DEF Waiting
    <3>2. (NeedsDeferred)' => NeedsDeferred
      BY <3>1 DEF NeedsDeferred
    <3>3. NeedsDeferred => user.ids # {}
      BY <1>9, <2>2
    <3>4. NeedsDeferred /\ answerable' # {} => user.ids = answerable'
      BY <1>8, <1>11, <1>12
    <3>5. answerable' \subseteq answerable
      BY <1>12
    <3>6. Reads(result', ToSet(blocks') \ D, answerable', Replayable)
      BY <1>10, <2>2, <3>5, ReadsAs DEF Shut
    <3> QED
      BY <1>4, <1>11, <3>1, <3>2, <3>3, <3>4, <3>6 DEF D
  <2> QED
    BY <1>8, <2>1, <2>2
<1> QED
  BY <1>4, <1>13, <1>14, <1>15 DEF Converting

\* What is said once is where it should be.
LEMMA ReadIsKept ==
    ASSUME NEW ms, NEW A, Reads(ms, ToSet(blocks), A, Replayable), blocks \in Seq(ChatBlock)
    PROVE  SaidOnce(ms) /\ AnsweredInTurn(ms)
<1>1. /\ ms \in Seq(OpenAIMessage)
      /\ \A i \in DOMAIN ms : BlocksOf(ms[i]) \in Seq(ChatBlock) /\ IsInjective(BlocksOf(ms[i]))
      /\ \A x \in Replayable : x \in ToSet(blocks) <=> \E i \in DOMAIN ms : x \in ToSet(BlocksOf(ms[i]))
      /\ \A i, j \in DOMAIN ms : \A x \in Replayable :
            x \in ToSet(BlocksOf(ms[i])) /\ x \in ToSet(BlocksOf(ms[j])) => i = j
      /\ AnsweredInTurn(ms)
  BY DEF Reads
<1>2. \A x : x \in ToSet(blocks) <=> \E k \in DOMAIN blocks : blocks[k] = x
  BY DEF ToSet
<1>3. \A k \in DOMAIN blocks : blocks[k] \in ChatBlock
  BY LenProperties, ElementOfSeq
<1>4. ASSUME NEW i \in DOMAIN ms, NEW k \in DOMAIN BlocksOf(ms[i])
      PROVE  /\ <<i, k>> \in Slots(ms)
             /\ BlockAt(ms, <<i, k>>) = BlocksOf(ms[i])[k]
  BY DEF Slots, BlockAt
<1>5. ASSUME NEW s \in Slots(ms)
      PROVE  \E i \in DOMAIN ms : \E k \in DOMAIN BlocksOf(ms[i]) : s = <<i, k>>
  BY DEF Slots
<1>6. ASSUME NEW b \in DOMAIN blocks, blocks[b].kind \in ReplayedKind
      PROVE  \E s \in Slots(ms) : BlockAt(ms, s) = blocks[b]
  <2>1. blocks[b] \in Replayable
    BY <1>3, <1>6 DEF Replayable
  <2>2. PICK i \in DOMAIN ms : blocks[b] \in ToSet(BlocksOf(ms[i]))
    BY <1>1, <1>2, <2>1
  <2>3. PICK k \in DOMAIN BlocksOf(ms[i]) : BlocksOf(ms[i])[k] = blocks[b]
    BY <2>2 DEF ToSet
  <2> QED
    BY <1>4, <2>3
<1>7. ASSUME NEW s \in Slots(ms), BlockAt(ms, s).kind \in ReplayedKind
      PROVE  /\ \E b \in DOMAIN blocks : blocks[b] = BlockAt(ms, s)
             /\ \A t \in Slots(ms) : BlockAt(ms, t) = BlockAt(ms, s) => t = s
  <2>1. PICK i \in DOMAIN ms : \E k \in DOMAIN BlocksOf(ms[i]) : s = <<i, k>>
    BY <1>5
  <2>2. PICK k \in DOMAIN BlocksOf(ms[i]) : s = <<i, k>>
    BY <2>1
  <2> DEFINE x == BlocksOf(ms[i])[k]
  <2>3. BlockAt(ms, s) = x
    BY <1>4, <2>2
  <2> HIDE DEF x
  <2>4. x \in ToSet(BlocksOf(ms[i])) /\ x \in ChatBlock
    <3>1. x \in ToSet(BlocksOf(ms[i]))
      BY DEF x, ToSet
    <3>2. BlocksOf(ms[i]) \in Seq(ChatBlock)
      BY <1>1
    <3>3. \A y \in ToSet(BlocksOf(ms[i])) : y \in ChatBlock
      BY <3>2, LenProperties, ElementOfSeq DEF ToSet
    <3> QED
      BY <3>1, <3>3
  <2>5. x \in Replayable
    BY <1>7, <2>3, <2>4 DEF Replayable
  <2>6. \E b \in DOMAIN blocks : blocks[b] = x
    BY <1>1, <1>2, <2>4, <2>5
  <2>7. ASSUME NEW t \in Slots(ms), BlockAt(ms, t) = x PROVE t = s
    <3>1. PICK j \in DOMAIN ms : \E l \in DOMAIN BlocksOf(ms[j]) : t = <<j, l>>
      BY <1>5
    <3>2. PICK l \in DOMAIN BlocksOf(ms[j]) : t = <<j, l>>
      BY <3>1
    <3>3. BlocksOf(ms[j])[l] = x
      BY <1>4, <2>7, <3>2
    <3>4. x \in ToSet(BlocksOf(ms[j]))
      BY <3>3 DEF ToSet
    <3>5. i = j
      BY <1>1, <2>4, <2>5, <3>4
    <3>6. k = l
      <4>1. IsInjective(BlocksOf(ms[i])) /\ BlocksOf(ms[i])[l] = BlocksOf(ms[i])[k]
        BY <1>1, <3>3, <3>5 DEF x
      <4>2. l \in DOMAIN BlocksOf(ms[i])
        BY <3>5
      <4> QED
        BY <4>1, <4>2 DEF IsInjective
    <3> QED
      BY <2>2, <3>2, <3>5, <3>6
  <2> QED
    BY <2>3, <2>6, <2>7
<1> QED
  BY <1>1, <1>6, <1>7 DEF SaidOnce

LEMMA InitConversionInv == ConversionInit => ConversionInv
<1> SUFFICES ASSUME ConversionInit PROVE ConversionInv
  OBVIOUS
<1>1. <<>> \in Seq(ChatBlock) /\ ToSet(<<>>) = {} /\ Len(<<>>) = 0
  BY QueueEmpty, EmptySeq
<1>2. Reads(<<>>, {} \ {}, {}, Replayable)
  <2>1. {} \ {} = {}
    OBVIOUS
  <2> QED
    BY <2>1, ReadsNothing
<1> QED
  BY <1>1, <1>2, NoneWaits DEF ConversionInit, ConversionInv, Converting, Modes, NeedsDeferred

LEMMA KindsAreFresh ==
    ASSUME Converting, NEW k \in 1..(BlockMax - Len(blocks)), NEW kinds \in [1..k -> AssistantKind]
    PROVE  Fresh(Numbered(kinds))
<1>1. Len(blocks) \in Nat
  BY LenProperties DEF Converting
<1>2. k \in Nat
  BY ConversionAssumption, <1>1
<1>3. DOMAIN kinds = 1..k /\ \A i \in 1..k : kinds[i] \in AssistantKind
  OBVIOUS
<1> QED
  BY <1>1, <1>2, <1>3, NumberedIs DEF Fresh

LEMMA NextConversionInv ==
    ConversionInv /\ [ConversionNext]_conversionVars => ConversionInv'
<1>1. ASSUME ConversionInv, ConversionNext PROVE ConversionInv'
  <2>1. reasoning_replay \in Modes /\ (~refused => Converting)
    BY <1>1 DEF ConversionInv
  <2>2. ASSUME NEW content, Send(content) PROVE ~refused /\ reasoning_replay' = reasoning_replay
    BY <2>2 DEF Send
  <2>3. ASSUME Converting', refused' = refused, reasoning_replay' = reasoning_replay, ~refused
        PROVE  ConversionInv'
    BY <2>1, <2>3 DEF ConversionInv
  <2>4. ASSUME NEW k \in 1..(BlockMax - Len(blocks)), NEW kinds \in [1..k -> AssistantKind],
               NEW top \in Top, AssistantList(Numbered(kinds), top)
        PROVE  ConversionInv'
    <3> DEFINE content == Numbered(kinds)
    <3>1. Send(content) /\ refused' = refused
      BY <2>4 DEF AssistantList
    <3>2. Fresh(content)
      BY <2>1, <2>2, <3>1, KindsAreFresh
    <3>3. AssistantList(content, top)
      BY <2>4
    <3> HIDE DEF content
    <3>4. ~refused /\ reasoning_replay' = reasoning_replay
      BY <2>2, <3>1
    <3>5. Converting'
      BY <2>1, <3>2, <3>3, <3>4, StepAssistantList
    <3> QED
      BY <2>3, <3>1, <3>4, <3>5
  <2>5. ASSUME NEW content, RefuseAssistantList(content) PROVE ConversionInv'
    <3>1. /\ Send(content) /\ refused' = TRUE
          /\ result' = result /\ pending' = pending
      BY <2>5 DEF RefuseAssistantList
    <3>2. ~refused /\ reasoning_replay' = reasoning_replay
      BY <2>2, <3>1
    <3>3. AnsweredInTurn(Replayed)
      BY <2>1, <3>2, ReplayedSoFar DEF Reads
    <3>4. Replayed' = Replayed
      BY <3>1, <3>2 DEF Replayed, DeferredMessages, AssistantMessage
    <3> QED
      BY <2>1, <3>1, <3>2, <3>3, <3>4 DEF ConversionInv
  <2>6. ASSUME NEW top \in Top, AssistantString(top) PROVE ConversionInv'
    <3>1. Send(Numbered(<<"text">>)) /\ refused' = refused
      BY <2>6 DEF AssistantString
    <3>2. ~refused /\ reasoning_replay' = reasoning_replay
      BY <2>2, <3>1
    <3> QED
      BY <2>1, <2>3, <2>6, <3>1, <3>2, StepAssistantString
  <2>7. ASSUME UserString PROVE ConversionInv'
    <3>1. Send(Numbered(<<"text">>)) /\ refused' = refused
      BY <2>7 DEF UserString
    <3>2. ~refused /\ reasoning_replay' = reasoning_replay
      BY <2>2, <3>1
    <3> QED
      BY <2>1, <2>3, <2>7, <3>1, <3>2, StepUserString
  <2>8. ASSUME NEW k \in 1..(BlockMax - Len(blocks)), NEW s \in UserContents(k),
               UserMessageList(NumberTexts(s))
        PROVE  ConversionInv'
    <3>1. Send(NumberTexts(s)) /\ refused' = refused
      BY <2>8 DEF UserMessageList
    <3>2. ~refused /\ reasoning_replay' = reasoning_replay
      BY <2>2, <3>1
    <3>3. k \in Nat
      BY <2>1, <3>2, ConversionAssumption, LenProperties DEF Converting
    <3>4. Converting'
      BY <2>1, <2>8, <3>2, <3>3, StepUserMessageList
    <3> QED
      BY <2>3, <3>1, <3>2, <3>4
  <2> QED
    BY <1>1, <2>4, <2>5, <2>6, <2>7, <2>8 DEF ConversionNext
<1>2. ASSUME ConversionInv, UNCHANGED conversionVars PROVE ConversionInv'
  <2>1. /\ reasoning_replay' = reasoning_replay /\ result' = result /\ pending' = pending
        /\ refused' = refused /\ blocks' = blocks /\ answerable' = answerable
    BY <1>2 DEF conversionVars
  <2>2. Replayable' = Replayable /\ Replayed' = Replayed /\ (NeedsDeferred)' = NeedsDeferred
    BY <2>1 DEF Replayable, ReplayedKind, Replayed, DeferredMessages, AssistantMessage, NeedsDeferred
  <2>3. Converting => Converting'
    BY <2>1, <2>2 DEF Converting
  <2> QED
    BY <1>2, <2>1, <2>2, <2>3 DEF ConversionInv
<1> QED
  BY <1>1, <1>2

\* However long a conversation and however its calls, texts and results are
\* spread over its messages, an OpenAI upstream reads each of its texts, calls
\* and results exactly once and every result behind its call (conversion.py:
\* convert_messages, _PendingAfterTools).
THEOREM KeepsConversation ==
    ConversionInit /\ [][ConversionNext]_conversionVars => []ConversationIsKept
<1>1. ConversionInv => ConversationIsKept
  <2> SUFFICES ASSUME ConversionInv PROVE ConversationIsKept
    OBVIOUS
  <2>1. CASE refused
    BY <2>1 DEF ConversionInv, ConversationIsKept, NothingLostOrDoubled, ResultsFollowTheirCall
  <2>2. CASE ~refused
    <3>1. /\ reasoning_replay \in Modes /\ Converting /\ blocks \in Seq(ChatBlock)
      BY <2>2 DEF ConversionInv, Converting
    <3>2. SaidOnce(Replayed) /\ AnsweredInTurn(Replayed)
      BY <3>1, ReplayedSoFar, ReadIsKept
    <3> QED
      BY <3>2 DEF ConversationIsKept, NothingLostOrDoubled, ResultsFollowTheirCall
  <2> QED
    BY <2>1, <2>2
<1> QED
  BY <1>1, InitConversionInv, NextConversionInv, PTL
=============================================================================

---------------------------- MODULE SlidingWindow ----------------------------
(***************************************************************************)
(* StrictSlidingWindowLimiter (core/rate_limit.py), which every provider   *)
(* request and every chat message passes.  Callers try to acquire; a try   *)
(* is one step, since the limiter's lock is held across no suspension      *)
(* point.  A caller that finds the window full sleeps until the oldest     *)
(* acquisition leaves it, then tries again; there is no queue of sleepers, *)
(* so who is woken first, or comes anew, gets the place.  The monotonic    *)
(* clock counts in units of its resolution.                                *)
(***************************************************************************)
EXTENDS Integers, Sequences, FiniteSets

CONSTANTS Caller,       \* coroutines that acquire, again and again
          rate_limit,   \* acquisitions allowed ...
          rate_window,  \* ... in any interval of this length
          Horizon       \* bound: the clock stops there

ASSUME WindowAssumption ==
    /\ rate_limit \in Nat \ {0}
    /\ rate_window \in Nat \ {0}
    /\ Horizon \in Nat

VARIABLES now,      \* time.monotonic()
          times,    \* _times, oldest first
          wake,     \* until when each caller sleeps; it may try from then on
          granted   \* history: the times of all acquisitions

vars == <<now, times, wake, granted>>

TypeOK ==
    /\ now \in Nat
    /\ times \in Seq(Nat) /\ Len(times) <= rate_limit
    /\ wake \in [Caller -> Nat]
    /\ granted \in Seq(Nat)

Init ==
    /\ now = 0
    /\ times = <<>>
    /\ wake = [c \in Caller |-> 0]
    /\ granted = <<>>

Tick ==
    /\ now < Horizon
    /\ now' = now + 1
    /\ UNCHANGED <<times, wake, granted>>

\* The acquisitions that have left the window are popped from the front: the
\* first k of them go, the next one is inside.
Expired(k) ==
    /\ k \in 0..Len(times)
    /\ \A i \in 1..k : times[i] <= now - rate_window
    /\ k < Len(times) => times[k + 1] > now - rate_window

Kept(k) == SubSeq(times, k + 1, Len(times))

Full_OffByOne(k) == Len(Kept(k)) > rate_limit

Full_Early(k) == Len(Kept(k)) + 1 >= rate_limit

Full(k) == Len(Kept(k)) >= rate_limit

Acquire(c) ==
    \E k \in 0..Len(times) :
        /\ wake[c] <= now
        /\ Expired(k)
        /\ ~Full(k)
        /\ times' = Append(Kept(k), now)
        /\ granted' = Append(granted, now)
        /\ UNCHANGED <<now, wake>>

Sleep(c) ==
    \E k \in 0..Len(times) :
        /\ wake[c] <= now
        /\ Expired(k)
        /\ Full(k)
        /\ times' = Kept(k)
        /\ wake' = [wake EXCEPT ![c] = Kept(k)[1] + rate_window]
        /\ UNCHANGED <<now, granted>>

Next == Tick \/ \E c \in Caller : Acquire(c) \/ Sleep(c)

Spec == Init /\ [][Next]_vars

-----------------------------------------------------------------------------
\* "At most rate_limit acquisitions in any interval of length rate_window"
\* (core/rate_limit.py:13-14), for every interval that has begun.
AtMostLimitPerWindow ==
    \A t \in 0..now :
        Cardinality({i \in 1..Len(granted) :
            granted[i] >= t /\ granted[i] < t + rate_window}) <= rate_limit

\* A caller sleeps only while the window is full: no place that is free is left
\* unused by a sleeper, although nobody wakes it early.
SleepOnlyWhenFull ==
    \A c \in Caller :
        now < wake[c] =>
            Cardinality({i \in 1..Len(granted) : granted[i] > now - rate_window}) = rate_limit

-----------------------------------------------------------------------------
(* The inductive invariant. *)

LastOf(n) == Len(granted) - n + 1

\* times is the end of granted, and what was popped has left the window.
TimesAreRecent ==
    /\ Len(times) <= Len(granted)
    /\ Len(times) <= rate_limit
    /\ \A i \in 1..Len(times) : times[i] = granted[Len(granted) - Len(times) + i]
    /\ \A i \in 1..Len(granted) - Len(times) : granted[i] + rate_window <= now

Ordered ==
    /\ \A i \in 1..Len(granted) : granted[i] <= now
    /\ \A i, j \in 1..Len(granted) : i <= j => granted[i] <= granted[j]

\* rate_limit acquisitions apart is at least a window apart.
Spaced ==
    \A i \in 1..Len(granted) - rate_limit :
        granted[i] + rate_window <= granted[i + rate_limit]

\* A sleeper waits for the oldest of the last rate_limit acquisitions.
SleepersWaitForOldest ==
    \A c \in Caller :
        now < wake[c] =>
            /\ Len(granted) >= rate_limit
            /\ wake[c] = granted[LastOf(rate_limit)] + rate_window

IInv == TypeOK /\ TimesAreRecent /\ Ordered /\ Spaced /\ SleepersWaitForOldest
=============================================================================

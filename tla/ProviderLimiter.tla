--------------------------- MODULE ProviderLimiter ---------------------------
(***************************************************************************)
(* GlobalRateLimiter of one provider (providers/rate_limit.py) and the     *)
(* requests that open a stream under it.  A request holds one of the       *)
(* concurrency slots from before its first attempt until its stream is     *)
(* over.  Each attempt waits for the reactive block, if there is one, and  *)
(* then for a place in the strict window, which is that of SlidingWindow;  *)
(* an attempt that the upstream refuses with 429 or 5xx blocks the         *)
(* provider for its own backoff and is made again.                         *)
(*                                                                         *)
(* Durations are in units of the clock.                                    *)
(***************************************************************************)
EXTENDS SlidingWindow, Queues

CONSTANTS max_concurrency, \* streams open at a time
          max_retries,     \* attempts after the first that fails
          base_delay, max_delay, jitter,
          RefusedBlock     \* set_blocked(60) of map_error

ASSUME LimiterAssumption ==
    /\ max_concurrency \in Nat \ {0}
    /\ max_retries \in Nat
    /\ base_delay \in Nat /\ max_delay \in Nat /\ jitter \in Nat
    /\ RefusedBlock \in Nat

VARIABLES
    phase,         \* where each request is
    queue,         \* those that wait for a slot: asyncio's semaphore is first come, first served
    attempt,       \* of execute_with_retry, from 0
    until,         \* until when a request sleeps, before the block is over or an attempt is repeated
    blocked_until, \* _blocked_until
    newer,         \* history: blocks were set since the request last looked for one
    opened         \* history: the attempts that were let through while the
                   \* provider was blocked: had the block been set since the look?

ownVars == <<phase, queue, attempt, until, blocked_until, newer, opened>>
limiterVars == <<ownVars, vars>>

Phases == {"new", "queued", "looking", "blocked", "window", "calling", "backoff", "streaming", "done"}

LimiterTypeOK ==
    /\ TypeOK
    /\ phase \in [Caller -> Phases]
    /\ queue \in Seq(Caller)
    /\ attempt \in [Caller -> 0..max_retries]
    /\ until \in [Caller -> Nat]
    /\ blocked_until \in Nat
    /\ newer \in [Caller -> BOOLEAN]
    /\ opened \in SUBSET BOOLEAN

LimiterInit ==
    /\ Init
    /\ phase = [c \in Caller |-> "new"]
    /\ queue = <<>>
    /\ attempt = [c \in Caller |-> 0]
    /\ until = [c \in Caller |-> 0]
    /\ blocked_until = 0
    /\ newer = [c \in Caller |-> FALSE]
    /\ opened = {}

Goes(c, to) == phase' = [phase EXCEPT ![c] = to]

-----------------------------------------------------------------------------
(* concurrency_slot *)

Holding == {c \in Caller : phase[c] \notin {"new", "queued", "done"}}

\* A free slot is taken at once, unless others wait for one.
Open(c) ==
    /\ phase[c] = "new"
    /\ IF queue = <<>> /\ Cardinality(Holding) < max_concurrency
       THEN Goes(c, "looking") /\ UNCHANGED queue
       ELSE Goes(c, "queued") /\ queue' = Append(queue, c)
    /\ UNCHANGED <<attempt, until, blocked_until, newer, opened, vars>>

\* The slot goes to the one that waits longest.
Release(c) ==
    IF queue = <<>>
    THEN Goes(c, "done") /\ UNCHANGED queue
    ELSE /\ phase' = [phase EXCEPT ![c] = "done", ![Head(queue)] = "looking"]
         /\ queue' = Tail(queue)

-----------------------------------------------------------------------------
(* wait_if_blocked *)

IsBlocked == now < blocked_until

Wait == blocked_until

\* The reactive check.  It is not repeated after the sleep.
Look(c) ==
    /\ phase[c] = "looking"
    /\ IF IsBlocked
       THEN Goes(c, "blocked") /\ until' = [until EXCEPT ![c] = Wait]
       ELSE Goes(c, "window") /\ UNCHANGED until
    /\ newer' = [newer EXCEPT ![c] = FALSE]
    /\ UNCHANGED <<queue, attempt, blocked_until, opened, vars>>

Unblocked(c) ==
    /\ phase[c] = "blocked" /\ until[c] <= now
    /\ Goes(c, "window")
    /\ UNCHANGED <<queue, attempt, until, blocked_until, newer, opened, vars>>

\* The window has no place.
Hold(c) == phase[c] = "window" /\ Sleep(c) /\ UNCHANGED ownVars

\* It has one: the upstream is called.
Call(c) ==
    /\ phase[c] = "window"
    /\ Acquire(c)
    /\ Goes(c, "calling")
    /\ opened' = IF IsBlocked THEN opened \cup {newer[c]} ELSE opened
    /\ UNCHANGED <<queue, attempt, until, blocked_until, newer>>

-----------------------------------------------------------------------------
(* execute_with_retry *)

\* set_blocked: the last one set counts, even if it ends sooner.
SetBlocked(seconds) ==
    /\ blocked_until' = now + seconds
    /\ newer' = [c \in Caller |-> TRUE]

Backoff(a) ==
    LET exponential == base_delay * 2^a
    IN {(IF exponential < max_delay THEN exponential ELSE max_delay) + j : j \in 0..jitter}

Answered(c) ==
    /\ phase[c] = "calling"
    /\ Goes(c, "streaming")
    /\ UNCHANGED <<queue, attempt, until, blocked_until, newer, opened, vars>>

MayRetry(c) == attempt[c] < max_retries

\* 429 or 5xx: the provider is blocked, and the request sleeps, as long as its backoff.
Refused(c) ==
    /\ phase[c] = "calling" /\ MayRetry(c)
    /\ \E delay \in Backoff(attempt[c]) :
        /\ SetBlocked(delay)
        /\ until' = [until EXCEPT ![c] = now + delay]
    /\ attempt' = [attempt EXCEPT ![c] = @ + 1]
    /\ Goes(c, "backoff")
    /\ UNCHANGED <<queue, opened, vars>>

Again(c) ==
    /\ phase[c] = "backoff" /\ until[c] <= now
    /\ Goes(c, "looking")
    /\ UNCHANGED <<queue, attempt, until, blocked_until, newer, opened, vars>>

\* The last refusal, or another error: it is raised, and a 429 blocks the
\* provider once more when the error is mapped.
Fails(c) ==
    /\ phase[c] = "calling"
    /\ \/ ~MayRetry(c) /\ SetBlocked(RefusedBlock)
       \/ UNCHANGED <<blocked_until, newer>>
    /\ Release(c)
    /\ UNCHANGED <<attempt, until, opened, vars>>

\* The stream ends, breaks or is left.
EndStream(c) ==
    /\ phase[c] = "streaming"
    /\ Release(c)
    /\ UNCHANGED <<attempt, until, blocked_until, newer, opened, vars>>

\* The task is cancelled while it waits for a slot, sleeps or is answered.
Leave(c) ==
    \/ /\ phase[c] = "queued"
       /\ queue' = Remaining(queue, {c})
       /\ Goes(c, "done")
       /\ UNCHANGED <<attempt, until, blocked_until, newer, opened, vars>>
    \/ /\ phase[c] \in {"blocked", "window", "calling", "backoff"}
       /\ Release(c)
       /\ UNCHANGED <<attempt, until, blocked_until, newer, opened, vars>>

Clock == Tick /\ UNCHANGED ownVars

LimiterNext ==
    \/ Clock
    \/ \E c \in Caller :
        \/ Open(c) \/ Look(c) \/ Unblocked(c) \/ Hold(c) \/ Call(c)
        \/ Answered(c) \/ Refused(c) \/ Again(c) \/ Fails(c) \/ EndStream(c) \/ Leave(c)

LimiterSpec == LimiterInit /\ [][LimiterNext]_limiterVars

-----------------------------------------------------------------------------
\* "Caps simultaneously open streams" (providers/rate_limit.py:60), and no slot
\* is lost when a request fails or is cancelled: whoever waits faces
\* max_concurrency streams.
SlotsAreUsed ==
    /\ Cardinality(Holding) <= max_concurrency
    /\ queue # <<>> => Cardinality(Holding) = max_concurrency
    /\ {queue[i] : i \in DOMAIN queue} = {c \in Caller : phase[c] = "queued"}

\* An attempt goes out during a block only when the block was set after the
\* request had looked for one (providers/rate_limit.py:162-174): while it slept
\* for an earlier block or waited for a place in the window.
BlocksHoldNewcomers == FALSE \notin opened

\* No request waits in vain: a slot or a place in the window that is free is
\* taken, and only a block set since the look is overrun
\* (rate_limit.py: concurrency_slot, wait_if_blocked).
LimitIsUsed == LimiterTypeOK /\ SleepOnlyWhenFull /\ SlotsAreUsed /\ BlocksHoldNewcomers
=============================================================================

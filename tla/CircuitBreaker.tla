--------------------------- MODULE CircuitBreaker ---------------------------
(***************************************************************************)
(* The circuit breaker of each provider (core/reliability/                 *)
(* circuit_breaker.py).  A guarded call enters, runs for as long as it     *)
(* takes and leaves with or without an error; calls of several requests    *)
(* overlap, so one may leave in another state of the breaker than it       *)
(* entered.  Entering and leaving hold the provider's lock across no       *)
(* suspension point.                                                       *)
(*                                                                         *)
(* Of the clock only one thing matters: whether recovery_timeout has       *)
(* passed since last_state_change of an open breaker.                      *)
(***************************************************************************)
EXTENDS Naturals

CONSTANTS Provider,           \* the providers' ids
          failure_threshold,
          success_threshold,
          CallMax             \* bound: guarded calls of a provider at a time

ASSUME BreakerAssumption ==
    /\ failure_threshold \in Nat \ {0}
    /\ success_threshold \in Nat \ {0}
    /\ CallMax \in Nat

VARIABLES
    state,      \* ProviderState.state
    failures,   \* ProviderState.failures
    successes,  \* ProviderState.successes
    recovered,  \* recovery_timeout has passed since last_state_change
    calls,      \* guarded calls under way
    streak      \* history: failed calls of a closed breaker since the last success
breakerVars == <<state, failures, successes, recovered, calls, streak>>

BreakerTypeOK ==
    /\ state \in [Provider -> {"CLOSED", "OPEN", "HALF_OPEN"}]
    /\ failures \in [Provider -> 0..failure_threshold]
    /\ successes \in [Provider -> 0..success_threshold]
    /\ recovered \in [Provider -> BOOLEAN]
    /\ calls \in [Provider -> Nat]
    /\ streak \in [Provider -> Nat]

\* Nothing was asked of any provider yet.
BreakerInit ==
    /\ state = [p \in Provider |-> "CLOSED"]
    /\ failures = [p \in Provider |-> 0]
    /\ successes = [p \in Provider |-> 0]
    /\ recovered = [p \in Provider |-> FALSE]
    /\ calls = [p \in Provider |-> 0]
    /\ streak = [p \in Provider |-> 0]

\* last_state_change is now.
Become(p, s, f, n) ==
    /\ state' = [state EXCEPT ![p] = s]
    /\ failures' = [failures EXCEPT ![p] = f]
    /\ successes' = [successes EXCEPT ![p] = n]
    /\ recovered' = [recovered EXCEPT ![p] = FALSE]
    /\ streak' = [streak EXCEPT ![p] = 0]

Stay(p, f, n) ==
    /\ failures' = [failures EXCEPT ![p] = f]
    /\ successes' = [successes EXCEPT ![p] = n]
    /\ UNCHANGED <<state, recovered>>

\* get_state: what the pipeline asks before it considers a provider.
SeemsOpen(p) == state[p] = "OPEN" /\ ~recovered[p]

\* The clock reaches the end of the recovery timeout.
Recover(p) ==
    /\ SeemsOpen(p)
    /\ recovered' = [recovered EXCEPT ![p] = TRUE]
    /\ UNCHANGED <<state, failures, successes, calls, streak>>

\* __aenter__: every call is let in unless the breaker is open; the first one
\* after the timeout makes it half open.
Enter(p) ==
    /\ ~SeemsOpen(p)
    /\ calls' = [calls EXCEPT ![p] = @ + 1]
    /\ IF state[p] = "OPEN"
       THEN Become(p, "HALF_OPEN", failures[p], 0)
       ELSE UNCHANGED <<state, failures, successes, recovered, streak>>

Succeed_Anytime(p) ==
    /\ calls[p] > 0
    /\ calls' = [calls EXCEPT ![p] = @ - 1]
    /\ Become(p, "CLOSED", 0, 0)

\* __aexit__ without an error: the successes of a half open breaker count,
\* those of a closed one forget the failures, a late one of an open breaker is
\* nothing.
Succeed(p) ==
    /\ calls[p] > 0
    /\ calls' = [calls EXCEPT ![p] = @ - 1]
    /\ \/ /\ state[p] = "HALF_OPEN"
          /\ successes[p] + 1 >= success_threshold
          /\ Become(p, "CLOSED", 0, 0)
       \/ /\ state[p] = "HALF_OPEN"
          /\ successes[p] + 1 < success_threshold
          /\ Stay(p, failures[p], successes[p] + 1)
          /\ streak' = [streak EXCEPT ![p] = 0]
       \/ /\ state[p] # "HALF_OPEN"
          /\ Stay(p, IF state[p] = "CLOSED" THEN 0 ELSE failures[p], successes[p])
          /\ streak' = [streak EXCEPT ![p] = 0]

\* One more failure is one too many.
Trips(p) == failures[p] + 1 >= failure_threshold

\* __aexit__ with an Exception: enough in a row open a closed breaker, any one
\* a half open breaker, and a late one of an open breaker is nothing.
Fail(p) ==
    /\ calls[p] > 0
    /\ calls' = [calls EXCEPT ![p] = @ - 1]
    /\ \/ /\ state[p] = "CLOSED" /\ Trips(p)
          /\ Become(p, "OPEN", failures[p] + 1, successes[p])
       \/ /\ state[p] = "CLOSED" /\ ~Trips(p)
          /\ Stay(p, failures[p] + 1, successes[p])
          /\ streak' = [streak EXCEPT ![p] = @ + 1]
       \/ /\ state[p] = "HALF_OPEN"
          /\ Become(p, "OPEN", failure_threshold, successes[p])
       \/ /\ state[p] = "OPEN"
          /\ Stay(p, failures[p], successes[p])
          /\ UNCHANGED streak

\* __aexit__ of a call that was cancelled: not among the tripping exceptions.
Cancelled(p) ==
    /\ calls[p] > 0
    /\ calls' = [calls EXCEPT ![p] = @ - 1]
    /\ UNCHANGED <<state, failures, successes, recovered, streak>>

ForceOpen(p) ==
    /\ Become(p, "OPEN", failure_threshold, successes[p])
    /\ UNCHANGED calls

ForceClosed(p) ==
    /\ Become(p, "CLOSED", 0, 0)
    /\ UNCHANGED calls

ForceHalfOpen(p) ==
    /\ Become(p, "HALF_OPEN", failures[p], 0)
    /\ UNCHANGED calls

BreakerNext ==
    \E p \in Provider :
        \/ Recover(p)
        \/ calls[p] < CallMax /\ Enter(p)
        \/ Succeed(p) \/ Fail(p) \/ Cancelled(p)
        \/ ForceOpen(p) \/ ForceClosed(p) \/ ForceHalfOpen(p)

BreakerSpec == BreakerInit /\ [][BreakerNext]_breakerVars

-----------------------------------------------------------------------------
\* A closed breaker has counted exactly the failures since the last success,
\* however calls let in earlier overlap (circuit_breaker.py:77-96), and fewer
\* than open it; an open one has counted as many as that.
CountsFailuresInARow ==
    \A p \in Provider :
        /\ state[p] = "CLOSED" => failures[p] = streak[p] /\ failures[p] < failure_threshold
        /\ state[p] = "OPEN" => failures[p] = failure_threshold
        /\ state[p] = "HALF_OPEN" => successes[p] < success_threshold

\* An open breaker stays open for the whole recovery timeout: no answer that
\* comes late, of a call let in before it opened, moves it
\* (circuit_breaker.py:77-102).
OpenForTheTimeout ==
    [][\A p \in Provider :
          SeemsOpen(p) => \/ state'[p] = "OPEN"
                          \/ ForceClosed(p)
                          \/ ForceHalfOpen(p)]_breakerVars

\* The breaker counts failures in a row, and once open it admits nothing before
\* its timeout, whatever overlapping calls still report
\* (circuit_breaker.py: CircuitBreakerContext.__aenter__, __aexit__).
BreakerKeepsCount == []CountsFailuresInARow /\ OpenForTheTimeout
=============================================================================

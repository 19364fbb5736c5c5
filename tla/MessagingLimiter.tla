--------------------------- MODULE MessagingLimiter ---------------------------
(***************************************************************************)
(* The queue in front of the chat platform (messaging/limiter.py).  Every  *)
(* send, edit and delete is submitted under a key; a submission whose key  *)
(* is already queued replaces the queued one and its caller joins those    *)
(* who wait for it.  One worker takes keys in order, waits for a flood     *)
(* pause and for the sliding window, and calls the platform.               *)
(*                                                                         *)
(* Submissions are numbered in the order they are made, so that of two     *)
(* edits of one message the one with the larger number is the newer.       *)
(* Durations are left out: a wait ends some time.                          *)
(***************************************************************************)
EXTENDS Naturals, SequencesExt, FiniteSets

CONSTANTS DedupKey,          \* dedup keys: one per message that is edited
          SubmitMax,    \* bound: how many submissions are made
          RetryMax,     \* max_retries of fire_and_forget (2 in the code)
          Failures,     \* how the platform can fail in this instance
          CanShutDown   \* whether the application stops in this instance

ASSUME LimiterAssumption ==
    /\ DedupKey # {}
    /\ SubmitMax \in Nat
    /\ RetryMax \in Nat
    /\ Failures \subseteq {"flood", "transient", "other"}
    /\ CanShutDown \in BOOLEAN

Submission == 1..SubmitMax
NoFunc == 0

VARIABLES
    queue_list,   \* _queue_list: keys in order
    queue_map,    \* _queue_map: the func to run and the callers that wait
    worker,       \* where the worker is suspended
    job,          \* what the worker popped
    paused,       \* _paused_until lies in the future
    limiter_shut_down,    \* _shutdown is set
    submitted,    \* number of submissions so far
    key_of,       \* key of each submission
    forget,       \* it was made by fire_and_forget
    call,         \* the caller: "waiting" for its future, in "backoff", ...
    retries,      \* retries the caller has made
    shown         \* submission whose content the platform shows for each key

queueVars == <<queue_list, queue_map>>
callVars == <<submitted, key_of, forget, call, retries>>
limiterVars == <<queueVars, worker, job, paused, limiter_shut_down, callVars, shown>>

NotQueued == [func |-> NoFunc, callers |-> {}]
QueueEntry == [func : Submission \cup {NoFunc}, callers : SUBSET Submission]
NoJob == [key |-> CHOOSE k \in DedupKey : TRUE, func |-> NoFunc, callers |-> {}]

LimiterTypeOK ==
    /\ queue_list \in Seq(DedupKey)
    /\ queue_map \in [DedupKey -> QueueEntry]
    /\ worker \in {"waiting", "pausing", "limiting", "sending", "stopped"}
    /\ job \in [key : DedupKey, func : Submission \cup {NoFunc}, callers : SUBSET Submission]
    /\ paused \in BOOLEAN
    /\ limiter_shut_down \in BOOLEAN
    /\ submitted \in 0..SubmitMax
    /\ key_of \in [Submission -> DedupKey]
    /\ forget \in [Submission -> BOOLEAN]
    /\ call \in [Submission -> {"none", "waiting", "backoff", "answered", "failed", "gave_up"}]
    /\ retries \in [Submission -> 0..RetryMax]
    /\ shown \in [DedupKey -> Submission \cup {NoFunc}]

LimiterInit ==
    /\ queue_list = <<>>
    /\ queue_map = [k \in DedupKey |-> NotQueued]
    /\ worker = "waiting"
    /\ job = NoJob
    /\ paused = FALSE
    /\ limiter_shut_down = FALSE
    /\ submitted = 0
    /\ key_of = [s \in Submission |-> NoJob.key]
    /\ forget = [s \in Submission |-> FALSE]
    /\ call = [s \in Submission |-> "none"]
    /\ retries = [s \in Submission |-> 0]
    /\ shown = [k \in DedupKey |-> NoFunc]

-----------------------------------------------------------------------------
Queued(k) == queue_map[k] # NotQueued

Enqueue_Replace(s, k) ==
    /\ queue_map' = [queue_map EXCEPT ![k] = [func |-> s, callers |-> {s}]]
    /\ queue_list' = IF Queued(k) THEN queue_list ELSE Append(queue_list, k)

Enqueue_OldFunc(s, k) ==
    /\ queue_map' = [queue_map EXCEPT ![k] =
                        [func |-> IF Queued(k) THEN @.func ELSE s, callers |-> @.callers \cup {s}]]
    /\ queue_list' = IF Queued(k) THEN queue_list ELSE Append(queue_list, k)

\* _enqueue_internal_multi for the submission s of key k: compaction keeps the
\* place in the queue, takes the new func and adds the caller.
Enqueue(s, k) ==
    /\ queue_map' = [queue_map EXCEPT ![k] = [func |-> s, callers |-> @.callers \cup {s}]]
    /\ queue_list' = IF Queued(k) THEN queue_list ELSE Append(queue_list, k)

\* enqueue, or the first attempt of fire_and_forget.
Submit(k, ff) ==
    LET s == submitted + 1
    IN  /\ submitted < SubmitMax
        /\ submitted' = s
        /\ key_of' = [key_of EXCEPT ![s] = k]
        /\ forget' = [forget EXCEPT ![s] = ff]
        /\ call' = [call EXCEPT ![s] = "waiting"]
        /\ Enqueue(s, k)
        /\ UNCHANGED <<worker, job, paused, limiter_shut_down, retries, shown>>

\* The backoff of a failed fire_and_forget is over: it enqueues its own func.
Retry(s) ==
    /\ call[s] = "backoff"
    /\ call' = [call EXCEPT ![s] = "waiting"]
    /\ retries' = [retries EXCEPT ![s] = @ + 1]
    /\ Enqueue(s, key_of[s])
    /\ UNCHANGED <<worker, job, paused, limiter_shut_down, submitted, key_of, forget, shown>>

\* The coroutine that awaits the answer is cancelled; its func stays queued.
GiveUp(s) ==
    /\ call[s] = "waiting" /\ ~forget[s]
    /\ call' = [call EXCEPT ![s] = "gave_up"]
    /\ UNCHANGED <<queueVars, worker, job, paused, limiter_shut_down, submitted, key_of,
                   forget, retries, shown>>

-----------------------------------------------------------------------------
(* The worker. *)

Pop ==
    /\ worker = "waiting" /\ queue_list # <<>>
    /\ worker' = "pausing"
    /\ queue_list' = Tail(queue_list)
    /\ LET k == Head(queue_list)
       IN  /\ job' = [key |-> k, func |-> queue_map[k].func, callers |-> queue_map[k].callers]
           /\ queue_map' = [queue_map EXCEPT ![k] = NotQueued]
    /\ UNCHANGED <<paused, limiter_shut_down, callVars, shown>>

\* The flood pause is slept out before the job goes on.
PauseOver ==
    /\ worker = "pausing"
    /\ worker' = "limiting"
    /\ paused' = FALSE
    /\ UNCHANGED <<queueVars, job, limiter_shut_down, callVars, shown>>

Acquire ==
    /\ worker = "limiting"
    /\ worker' = "sending"
    /\ UNCHANGED <<queueVars, job, paused, limiter_shut_down, callVars, shown>>

\* The futures that are not done yet get the outcome.
Tell(outcome) ==
    call' = [s \in Submission |->
                IF s \in job.callers /\ call[s] = "waiting" THEN outcome[s] ELSE call[s]]

SendOk ==
    /\ worker = "sending"
    /\ worker' = "waiting"
    /\ job' = NoJob
    /\ shown' = [shown EXCEPT ![job.key] = job.func]
    /\ Tell([s \in Submission |-> "answered"])
    /\ UNCHANGED <<queueVars, paused, limiter_shut_down, submitted, key_of, forget, retries>>

MayTryAgain(s) == forget[s] /\ retries[s] < RetryMax

\* A failed call: a flood error pauses the worker; a transient one is retried
\* by fire_and_forget.  A call that timed out may have reached the platform.
SendFail(why) ==
    /\ worker = "sending"
    /\ worker' = "waiting"
    /\ job' = NoJob
    /\ paused' = (why = "flood")
    /\ Tell([s \in Submission |->
                IF why = "transient" /\ MayTryAgain(s) THEN "backoff" ELSE "failed"])
    /\ \/ UNCHANGED shown
       \/ /\ why = "transient"
          /\ shown' = [shown EXCEPT ![job.key] = job.func]
    /\ UNCHANGED <<queueVars, limiter_shut_down, submitted, key_of, forget, retries>>

\* shutdown cancels the worker wherever it is; what it popped is dropped.
ShutdownLimiter ==
    /\ CanShutDown /\ ~limiter_shut_down
    /\ limiter_shut_down' = TRUE
    /\ worker' = "stopped"
    /\ job' = NoJob
    /\ UNCHANGED <<queueVars, paused, callVars, shown>>

-----------------------------------------------------------------------------
WorkerStep == Pop \/ PauseOver \/ Acquire \/ SendOk \/ \E why \in Failures : SendFail(why)

LimiterNext ==
    \/ \E k \in DedupKey, ff \in BOOLEAN : Submit(k, ff)
    \/ \E s \in Submission : Retry(s) \/ GiveUp(s)
    \/ WorkerStep
    \/ ShutdownLimiter

LimiterSpec == LimiterInit /\ [][LimiterNext]_limiterVars

\* The event loop runs the worker, sleeps end and platform calls return; while
\* back-offs are over, one of the retries that are due is made.
LimiterFairness ==
    /\ WF_limiterVars(WorkerStep)
    /\ WF_limiterVars(\E s \in Submission : Retry(s))

-----------------------------------------------------------------------------
\* The list and the map agree, so that the worker never pops a key that is not
\* in the map (limiter.py:98-99) and no key of the map is out of its reach.
ListMatchesMap ==
    /\ IsInjective(queue_list)
    /\ ToSet(queue_list) = {k \in DedupKey : Queued(k)}

\* Through compaction, retries and failures a caller that waits is among those
\* that the queue or the worker's job will answer.
NoCallerForgotten ==
    ~limiter_shut_down => \A s \in Submission :
        call[s] = "waiting" =>
            \/ s \in queue_map[key_of[s]].callers
            \/ s \in job.callers /\ job.key = key_of[s]

\* "Ensure only the latest version of a message update is processed"
\* (limiter.py:25-26): once a caller hears that its update is out, an older one
\* is shown again only if it is a failed one that fire_and_forget tries once more.
OnlyRetriesGoBack ==
    \A s \in Submission :
        LET now == shown[key_of[s]]
        IN  call[s] = "answered" /\ now < s => now # NoFunc /\ retries[now] > 0

\* Every caller hears of its submission: of finitely many, none is left waiting,
\* unless the application stops; what is queued or popped then is never answered
\* (limiter.py:172-201).
EveryCallerAnswered ==
    []<>(limiter_shut_down \/ \A s \in Submission : call[s] # "waiting")

\* The list and the map of the queue agree, a replaced submission keeps its
\* callers, and only a retry may show an older text again
\* (limiter.py: _enqueue_internal_multi, fire_and_forget).
QueueIsSound == LimiterTypeOK /\ ListMatchesMap /\ NoCallerForgotten /\ OnlyRetriesGoBack
=============================================================================

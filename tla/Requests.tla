------------------------------ MODULE Requests ------------------------------
(***************************************************************************)
(* What becomes of a request that no cache, identical request or shortcut  *)
(* answers (api/services.py, _execute_request_with_retry_and_fallback):    *)
(* the providers that may take it are gathered with a key each; when there *)
(* are none it waits half a minute and, marked in the queue, a little      *)
(* longer; then they are tried one after the other, each several times,    *)
(* or the first two of them at once.  What no provider answers goes to the *)
(* dead letters.                                                           *)
(*                                                                         *)
(* The breaker and the pool of keys are those of CircuitBreaker and        *)
(* KeyPool; all requests share them.  The semaphores are not shared: each  *)
(* HTTP request makes its own service, and with it its own semaphores.     *)
(***************************************************************************)
EXTENDS CircuitBreaker, KeyPool, FiniteSets

CONSTANTS Request,     \* requests under way
          Models,      \* of each: the provider of the model asked for, then those
                       \* of the fallback models
          max_retries, \* attempts with a provider beyond the first
          ChunkMax,    \* bound: chunks of the answer to each request
          BlackoutMax, \* bound: changes of the blackout
          FailMax      \* bound: attempts that fail

ASSUME RequestsAssumption ==
    /\ IsFiniteSet(Request)
    /\ Models \in [Request -> Seq(Provider) \ {<<>>}]
    /\ Provider \subseteq Pool
    /\ max_retries \in Nat
    /\ ChunkMax \in [Request -> Nat \ {0}]

VARIABLES
    phase,      \* where the request is
    plan,       \* what it was routed to, and the candidates in their order
    eligible,   \* those it may ask, each with its key
    at,         \* its position in that list
    lane,       \* its generators of attempts: the first, and the second in a race
    sent,       \* history: what it has yielded since the last first chunk
    spliced,    \* history: it had yielded something before that
    race,       \* enable_parallel_provider_race, a setting
    blackout,   \* providers in a blackout window
    blackouts,  \* number of changes so far
    fails,      \* number of failed attempts so far
    markers,    \* _queues of the request queue: how many wait for a provider
    letters     \* the dead letters: how many there are of each request

requestVars == <<phase, plan, eligible, at, lane, sent, spliced, markers, letters>>
worldVars == <<race, blackout, blackouts, fails>>
allVars == <<requestVars, worldVars, breakerVars, poolVars>>

NoKeyNeeded == "default_key"

\* A generator of attempts that is not there.
NoLane == [step |-> "none", attempt |-> 0, n |-> 0]

NoLanes == [l \in 1..2 |-> NoLane]

NewLane == [step |-> "asking", attempt |-> 1, n |-> 0]

Steps == {"none", "asking", "backoff", "first", "streaming", "given up"}

RequestsTypeOK ==
    /\ BreakerTypeOK
    /\ PoolTypeOK
    /\ phase \in [Request -> {"gathering", "queued", "trying", "running", "racing",
                              "won", "burying", "done", "failed"}]
    /\ at \in [Request -> Nat]
    /\ lane \in [Request -> [1..2 -> [step: Steps, attempt: 0..max_retries + 1, n: Nat]]]
    /\ blackout \subseteq Provider
    /\ markers \in [Provider -> Nat]
    /\ letters \in [Request -> Nat]

\* With weights set the candidates come in a random order, without in theirs.
Balanced(s) == {[i \in DOMAIN s |-> s[f[i]]] : f \in Bijection(DOMAIN s, DOMAIN s)}

Init ==
    /\ BreakerInit
    /\ PoolInit
    /\ phase = [r \in Request |-> "gathering"]
    /\ \E order \in [Request -> UNION {Balanced(Models[r]) : r \in Request}] :
        /\ \A r \in Request : order[r] \in Balanced(Models[r])
        /\ plan = [r \in Request |-> [routed |-> Head(Models[r]), list |-> order[r]]]
    /\ eligible = [r \in Request |-> <<>>]
    /\ at = [r \in Request |-> 1]
    /\ lane = [r \in Request |-> [l \in 1..2 |-> NoLane]]
    /\ sent = [r \in Request |-> <<>>]
    /\ spliced = [r \in Request |-> FALSE]
    /\ race \in BOOLEAN
    /\ blackout = {}
    /\ blackouts = 0
    /\ fails = 0
    /\ markers = [p \in Provider |-> 0]
    /\ letters = [r \in Request |-> 0]

Goes(r, to) == phase' = [phase EXCEPT ![r] = to]

-----------------------------------------------------------------------------
(* Gathering. *)

\* Not in a blackout, and its breaker lets calls in or seems to.
Considered(p) == p \notin blackout /\ ~SeemsOpen(p)

\* What gathering has come to: the pool, and who may be asked with which key.
Gathered == [keys |-> keys, index |-> index, list |-> <<>>]

\* One candidate: it needs no key, or the next usable one is handed out to it,
\* to be used or not, or it has none that is usable.
With(g, p) ==
    LET i == Pick(g.keys[p], g.index[p])
    IN IF ~Considered(p) THEN g
       ELSE IF ~HasKeys(g.keys[p])
       THEN [g EXCEPT !.list = Append(@, [provider |-> p, key |-> NoKeyNeeded])]
       ELSE IF i = 0 THEN g
       ELSE [keys |-> [g.keys EXCEPT ![p][i] = Used(@)],
             index |-> [g.index EXCEPT ![p] = NextIndex(g.keys[p], i)],
             list |-> Append(g.list, [provider |-> p, key |-> g.keys[p][i].key])]

\* All candidates in order, and those up to the first that may be asked.
All(r) ==
    LET list == plan[r].list
        upTo[i \in 0..Len(list)] == IF i = 0 THEN Gathered ELSE With(upTo[i - 1], list[i])
    IN  upTo[Len(list)]

First(r) ==
    LET list == plan[r].list
        upTo[i \in 0..Len(list)] ==
            IF i = 0 THEN Gathered
            ELSE IF upTo[i - 1].list = <<>> THEN With(upTo[i - 1], list[i])
            ELSE upTo[i - 1]
    IN  upTo[Len(list)]

\* The first two are out of it: the rest is tried in order.
LoseRace(r) ==
    /\ eligible' = [eligible EXCEPT ![r] = SubSeq(@, 3, Len(@))]
    /\ Goes(r, "trying")
    /\ lane' = [lane EXCEPT ![r] = NoLanes]

\* With the race on, and two to ask, both generators start at once.
StartWith(r, g) ==
    /\ keys' = g.keys
    /\ index' = g.index
    /\ UNCHANGED <<file, admin, starts, unsaved, revoked, waiting>>
    /\ eligible' = [eligible EXCEPT ![r] = g.list]
    /\ IF race /\ Len(g.list) >= 2
       THEN /\ Goes(r, "racing")
            /\ lane' = [lane EXCEPT ![r] = [l \in 1..2 |-> NewLane]]
       ELSE /\ Goes(r, "trying")
            /\ UNCHANGED lane

Gather(r) ==
    /\ phase[r] = "gathering"
    /\ All(r).list # <<>>
    /\ StartWith(r, All(r))
    /\ UNCHANGED <<plan, at, sent, spliced, markers, letters, worldVars, breakerVars>>

\* Half a minute without anybody to ask.
Enqueue(r) ==
    /\ phase[r] = "gathering"
    /\ All(r).list = <<>>
    /\ markers' = [markers EXCEPT ![plan[r].routed] = @ + 1]
    /\ Goes(r, "queued")
    /\ UNCHANGED <<plan, eligible, at, lane, sent, spliced, letters, worldVars, breakerVars, poolVars>>

\* dequeue: the first marker of the provider goes, whosever it is.
Unmark(r) == markers' = [markers EXCEPT ![plan[r].routed] = IF @ = 0 THEN 0 ELSE @ - 1]

\* Five seconds later the first that may be asked is taken.
LastGather(r) ==
    /\ phase[r] = "queued"
    /\ Unmark(r)
    /\ \/ /\ First(r).list # <<>>
          /\ StartWith(r, First(r))
       \/ /\ First(r).list = <<>>
          /\ Goes(r, "burying")
          /\ UNCHANGED <<eligible, lane, poolVars>>
    /\ UNCHANGED <<plan, at, sent, spliced, letters, worldVars, breakerVars>>

-----------------------------------------------------------------------------
(* attempt_provider: lane l of request r. *)

\* Which of the eligible a lane asks.
Place(r, l) == IF phase[r] = "running" THEN at[r] ELSE l

Entry(r, l) == eligible[r][Place(r, l)]

Lane(r, l, s, n) == lane' = [lane EXCEPT ![r][l] = [step |-> s, attempt |-> @.attempt, n |-> n]]

Send(r, l, n) ==
    LET chunk == [place |-> Place(r, l), attempt |-> lane[r][l].attempt, n |-> n] IN
    /\ sent' = [sent EXCEPT ![r] = IF n = 1 THEN <<chunk>> ELSE Append(@, chunk)]
    /\ spliced' = [spliced EXCEPT ![r] = @ \/ (n = 1 /\ sent[r] # <<>>)]

\* Its key, if it has one, is told how it went.
Tell(r, l, Report(_, _)) ==
    IF Entry(r, l).key = NoKeyNeeded THEN UNCHANGED poolVars
    ELSE Report(Entry(r, l).provider, Entry(r, l).key)

\* The first chunk: in a race it waits for the race to be settled.
FirstChunk(r, l) ==
    /\ lane[r][l].step = "asking"
    /\ Tell(r, l, ReportSuccess)
    /\ \/ /\ phase[r] = "racing"
          /\ Lane(r, l, "first", 1)
          /\ UNCHANGED <<sent, spliced>>
       \/ /\ phase[r] # "racing"
          /\ Lane(r, l, "streaming", 1)
          /\ Send(r, l, 1)
    /\ UNCHANGED <<phase, plan, eligible, at, markers, letters, worldVars, breakerVars>>

NextChunk(r, l) ==
    /\ lane[r][l].step = "streaming"
    /\ lane[r][l].n < ChunkMax[r]
    /\ Lane(r, l, "streaming", lane[r][l].n + 1)
    /\ Send(r, l, lane[r][l].n + 1)
    /\ UNCHANGED <<phase, plan, eligible, at, markers, letters, worldVars, breakerVars, poolVars>>

\* The stream ends: the answer is complete, and the breaker, if it is asked
\* under one, hears of it.
EndOfStream(r, l) ==
    /\ lane[r][l].step = "streaming"
    /\ \/ phase[r] = "running" /\ Succeed(Entry(r, l).provider)
       \/ phase[r] = "won" /\ UNCHANGED breakerVars
    /\ Goes(r, "done")
    /\ lane' = [lane EXCEPT ![r] = NoLanes]
    /\ UNCHANGED <<plan, eligible, at, sent, spliced, markers, letters, worldVars, poolVars>>

MayRetry(a) == a <= max_retries

\* Any error, at once or after chunks were yielded, a stalled stream included;
\* a 429 is reported of the key.
Fails(r, l) ==
    /\ lane[r][l].step \in {"asking", "streaming"}
    /\ fails < FailMax
    /\ fails' = fails + 1
    /\ Tell(r, l, Report429) \/ UNCHANGED poolVars
    /\ UNCHANGED <<plan, sent, spliced, markers, letters, race, blackout, blackouts>>

\* The attempt will be made again, with the same key.
AttemptFails(r, l) ==
    /\ Fails(r, l)
    /\ MayRetry(lane[r][l].attempt)
    /\ Lane(r, l, "backoff", 0)
    /\ UNCHANGED <<phase, eligible, at, breakerVars>>

\* It was the last: the next candidate's turn; or the race is lost, or, when
\* it is not settled yet, the other lane may still win it.
LaneFails(r, l) ==
    /\ Fails(r, l)
    /\ ~MayRetry(lane[r][l].attempt)
    /\ \/ /\ phase[r] = "running"
          /\ Fail(Entry(r, l).provider)
          /\ at' = [at EXCEPT ![r] = @ + 1]
          /\ Goes(r, "trying")
          /\ lane' = [lane EXCEPT ![r] = NoLanes]
          /\ UNCHANGED eligible
       \/ /\ phase[r] = "won"
          /\ LoseRace(r)
          /\ UNCHANGED <<at, breakerVars>>
       \/ /\ phase[r] = "racing"
          /\ Lane(r, l, "given up", 0)
          /\ UNCHANGED <<phase, eligible, at, breakerVars>>

Retry(r, l) ==
    /\ lane[r][l].step = "backoff"
    /\ lane' = [lane EXCEPT ![r][l] = [step |-> "asking", attempt |-> @.attempt + 1, n |-> @.n]]
    /\ UNCHANGED <<phase, plan, eligible, at, sent, spliced, markers, letters, worldVars, breakerVars, poolVars>>

LaneStep(r, l) ==
    \/ FirstChunk(r, l) \/ NextChunk(r, l) \/ EndOfStream(r, l)
    \/ AttemptFails(r, l) \/ LaneFails(r, l) \/ Retry(r, l)

-----------------------------------------------------------------------------
(* One after the other, each under its breaker. *)

Try_Waits(r) ==
    /\ phase[r] = "trying" /\ at[r] <= Len(eligible[r])
    /\ Enter(eligible[r][at[r]].provider)
    /\ Goes(r, "running")
    /\ lane' = [lane EXCEPT ![r][1] = NewLane]
    /\ UNCHANGED <<plan, eligible, at, sent, spliced, markers, letters, worldVars, poolVars>>

\* The breaker is asked again, and may have opened since the gathering.
Try(r) ==
    /\ phase[r] = "trying" /\ at[r] <= Len(eligible[r])
    /\ LET p == eligible[r][at[r]].provider IN
       \/ /\ SeemsOpen(p)
          /\ at' = [at EXCEPT ![r] = @ + 1]
          /\ UNCHANGED <<phase, lane, breakerVars>>
       \/ /\ Enter(p)
          /\ Goes(r, "running")
          /\ lane' = [lane EXCEPT ![r][1] = NewLane]
          /\ UNCHANGED at
    /\ UNCHANGED <<plan, eligible, sent, spliced, markers, letters, worldVars, poolVars>>

Exhausted_Silent(r) ==
    /\ phase[r] = "trying" /\ at[r] > Len(eligible[r])
    /\ Goes(r, "failed")
    /\ UNCHANGED <<plan, eligible, at, lane, sent, spliced, markers, letters, worldVars, breakerVars, poolVars>>

\* All have failed: record_failure, then the last error is raised.
Exhausted(r) ==
    /\ phase[r] = "trying" /\ at[r] > Len(eligible[r])
    /\ Goes(r, "burying")
    /\ UNCHANGED <<plan, eligible, at, lane, sent, spliced, markers, letters, worldVars, breakerVars, poolVars>>

Bury(r) ==
    /\ phase[r] = "burying"
    /\ letters' = [letters EXCEPT ![r] = @ + 1]
    /\ Goes(r, "failed")
    /\ UNCHANGED <<plan, eligible, at, lane, sent, spliced, markers, worldVars, breakerVars, poolVars>>

-----------------------------------------------------------------------------
(* _race_streams: the first two at once, outside their breakers. *)

Settle_DropsFirst(r) ==
    /\ phase[r] = "racing"
    /\ \E l \in 1..2 :
        /\ lane[r][l].step = "first"
        /\ lane' = [lane EXCEPT ![r] = [m \in 1..2 |-> IF m = l THEN [@[m] EXCEPT !.step = "streaming"] ELSE NoLane]]
    /\ Goes(r, "won")
    /\ UNCHANGED <<plan, eligible, at, sent, spliced, markers, letters, worldVars, breakerVars, poolVars>>

\* The first lane wins when both have a chunk; the other is cancelled.
Settle(r) ==
    /\ phase[r] = "racing"
    /\ \E l \in 1..2 :
        /\ lane[r][l].step = "first"
        /\ l = 2 => lane[r][1].step # "first"
        /\ lane' = [lane EXCEPT ![r] = [m \in 1..2 |->
                        IF m = l THEN [step |-> "streaming", attempt |-> @[m].attempt, n |-> @[m].n] ELSE NoLane]]
        /\ Send(r, l, 1)
    /\ Goes(r, "won")
    /\ UNCHANGED <<plan, eligible, at, markers, letters, worldVars, breakerVars, poolVars>>

RaceLost(r) ==
    /\ phase[r] = "racing" /\ \A l \in 1..2 : lane[r][l].step = "given up"
    /\ LoseRace(r)
    /\ UNCHANGED <<plan, at, sent, spliced, markers, letters, worldVars, breakerVars, poolVars>>

-----------------------------------------------------------------------------
(* Time. *)

\* A blackout window begins or ends.
Blackout(p) ==
    /\ blackouts < BlackoutMax
    /\ blackouts' = blackouts + 1
    /\ blackout' = IF p \in blackout THEN blackout \ {p} ELSE blackout \cup {p}
    /\ UNCHANGED <<race, fails, requestVars, breakerVars, poolVars>>

Recovers(p) == Recover(p) /\ UNCHANGED <<requestVars, worldVars, poolVars>>

CoolsDown(p, k) == CoolDown(p, k) /\ UNCHANGED <<requestVars, worldVars, breakerVars>>

Step(r) ==
    \/ \E l \in 1..2 : LaneStep(r, l)
    \/ Gather(r) \/ Enqueue(r) \/ LastGather(r)
    \/ Try(r) \/ Exhausted(r) \/ Bury(r) \/ Settle(r) \/ RaceLost(r)

Next ==
    \/ \E r \in Request : Step(r)
    \/ \E p \in Provider : Blackout(p) \/ Recovers(p) \/ \E k \in Key : CoolsDown(p, k)

Spec == Init /\ [][Next]_allVars

\* The event loop runs what is ready; the watchdog ends an attempt whose stream
\* stalls; sleeps end.
FairSpec ==
    /\ Spec
    /\ \A r \in Request : WF_allVars(Step(r))

-----------------------------------------------------------------------------
\* What is answered ends with one whole attempt, from its first chunk to its
\* end, whatever was tried, raced or broken off before (services.py:776-845, 906-940).
EndsWithWholeAttempt ==
    \A r \in Request : phase[r] = "done" =>
        /\ sent[r] # <<>>
        /\ \A i \in DOMAIN sent[r] : sent[r][i] = [sent[r][1] EXCEPT !.n = i]

\* Every request that fails is in the dead letters, once, and none that was
\* answered is (services.py:751-758, 941-949).
DeadLettersAreTheFailed ==
    \A r \in Request : letters[r] = IF phase[r] = "failed" THEN 1 ELSE 0

\* The queue has as many requests of a provider as wait for it, although each
\* takes out the first, whosever it is (services.py:722-749).
QueueIsTheWaiting ==
    \A p \in Provider :
        markers[p] = Cardinality({r \in Request : phase[r] = "queued" /\ plan[r].routed = p})

\* Every request is answered or fails, however many providers it goes through.
EveryRequestEnds ==
    \A r \in Request : phase[r] = "gathering" ~> phase[r] \in {"done", "failed"}

\* "Mid-stream failures still propagate normally" (services.py:74): a client is
\* given the chunks of one attempt.
OneAttempt == \A r \in Request : ~spliced[r]

\* The markers of a provider's queue are the requests that wait in it, and the
\* dead letters are the requests that failed, one each
\* (services.py: _execute_request_with_retry_and_fallback; request_queue.py;
\* dead_letter.py).
AccountsAgree == RequestsTypeOK /\ QueueIsTheWaiting /\ DeadLettersAreTheFailed
=============================================================================

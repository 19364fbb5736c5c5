------------------------------ MODULE Delivery ------------------------------
(***************************************************************************)
(* How a response reaches its readers (api/services.py, core/reliability/  *)
(* dedup.py and cache.py): a request is answered from the cache, or joins  *)
(* the identical request that is just being started, or starts its own.    *)
(* The upstream stream of a started request is read by a task of its own   *)
(* into a multiplexer, from which every joined request reads at its own    *)
(* pace; a response read to its end is cached.                             *)
(*                                                                         *)
(* The multiplexer's lock is asyncio's: first come, first served.  It is a *)
(* sequence whose head holds it.  A reader holds it while its client takes *)
(* the chunk, since iterate yields inside the lock.                        *)
(***************************************************************************)
EXTENDS Naturals, Sequences, SequencesExt, Queues

CONSTANTS Reader,     \* requests, each with a client that reads the answer
          None,       \* Python's None
          Producer,   \* _consume, as one that takes the lock
          Payload,    \* contents of requests, as the cache tells them apart
          hash_request,   \* contents as the deduplicator tells them apart
          max_size,   \* of the cache
          Asks,       \* bound: contents that each request may have
          StreamMax   \* bound: chunks of the stream that answers a payload

\* The cache of the application has the default size, 128 (runtime.py:143).
ASSUME DeliveryAssumption ==
    /\ None \notin Reader /\ Producer \notin Reader
    /\ None \notin Payload
    /\ Asks \in [Reader -> SUBSET Payload]
    /\ max_size \in Nat \ {0}

VARIABLES
    reader,     \* where each request is
    payload,    \* its content, once it has come
    in_flight,  \* _in_flight: by hash, the request whose future is awaited
    source,     \* the request whose multiplexer a request reads
    upstream,   \* what the task of each multiplexer does
    chunks,     \* _chunks of each multiplexer
    done,       \* _done
    error,      \* _error is set
    lock,       \* _lock: its holder, then those that wait for it
    waiters,    \* _waiters: the readers whose events are registered
    event,      \* the events that are set
    got,        \* accumulated: the chunks a reader was given
    cache       \* _cache, oldest first

muxVars == <<upstream, chunks, done, error, lock, waiters, event>>
vars == <<reader, payload, in_flight, source, muxVars, got, cache>>

Chunk == [of: Reader, n: Nat \ {0}]

TypeOK ==
    /\ reader \in [Reader -> {"new", "cached", "missed", "joining", "resumed",
                               "entering", "looking", "yielding", "waiting", "closing",
                               "dropped", "leaving", "ended", "failed", "gone", "cut"}]
    /\ payload \in [Reader -> Payload \cup {None}]
    /\ in_flight \in [{hash_request[p] : p \in Payload} -> Reader \cup {None}]
    /\ source \in [Reader -> Reader \cup {None}]
    /\ upstream \in [Reader -> {"none", "due", "pulling", "appending", "failing", "finishing", "over"}]
    /\ chunks \in [Reader -> Seq(Chunk)]
    /\ done \in [Reader -> BOOLEAN]
    /\ error \in [Reader -> BOOLEAN]
    /\ lock \in [Reader -> Seq(Reader \cup {Producer})]
    /\ waiters \in [Reader -> SUBSET Reader]
    /\ event \in SUBSET Reader
    /\ got \in [Reader -> Seq(Chunk)]

DeliveryInit ==
    /\ reader = [r \in Reader |-> "new"]
    /\ payload = [r \in Reader |-> None]
    /\ in_flight = [h \in {hash_request[p] : p \in Payload} |-> None]
    /\ source = [r \in Reader |-> None]
    /\ upstream = [r \in Reader |-> "none"]
    /\ chunks = [r \in Reader |-> <<>>]
    /\ done = [r \in Reader |-> FALSE]
    /\ error = [r \in Reader |-> FALSE]
    /\ lock = [r \in Reader |-> <<>>]
    /\ waiters = [r \in Reader |-> {}]
    /\ event = {}
    /\ got = [r \in Reader |-> <<>>]
    /\ cache = <<>>

-----------------------------------------------------------------------------
(* The lock. *)

Ask(m, who) == lock' = [lock EXCEPT ![m] = Append(@, who)]

Has(m, who) == lock[m] # <<>> /\ Head(lock[m]) = who

Release(m) == lock' = [lock EXCEPT ![m] = Tail(@)]

\* Released and asked for again: behind those that wait.
Pass(m, who) == lock' = [lock EXCEPT ![m] = Append(Tail(@), who)]

Becomes(r, pc) == reader' = [reader EXCEPT ![r] = pc]

-----------------------------------------------------------------------------
(* The cache. *)

Cached(p) == {i \in DOMAIN cache : cache[i].payload = p}

\* The cache without the entry of p.
Without(p) == Remaining(cache, {cache[i] : i \in Cached(p)})

\* get: a hit is the newest from now on.
Hit(r, p) ==
    \E i \in Cached(p) :
        /\ cache[i].fresh
        /\ got' = [got EXCEPT ![r] = cache[i].chunks]
        /\ cache' = Append(Without(p), cache[i])

\* get: what is there has expired and goes.
Miss(p) ==
    /\ \A i \in Cached(p) : ~cache[i].fresh
    /\ cache' = Without(p)

\* The oldest entry makes room for a new one.
Room(c) == IF Len(c) >= max_size THEN Tail(c) ELSE c

\* set
CacheSet(p, s) ==
    cache' = Append(IF Cached(p) # {} THEN Without(p) ELSE Room(cache),
                    [payload |-> p, chunks |-> s, fresh |-> TRUE])

\* The time to live of an entry is over, while somebody may ask for it.
Expire ==
    /\ \E r \in Reader : reader[r] = "new"
    /\ \E i \in DOMAIN cache :
        /\ cache[i].fresh
        /\ cache' = [cache EXCEPT ![i].fresh = FALSE]
    /\ UNCHANGED <<reader, payload, in_flight, source, muxVars, got>>

-----------------------------------------------------------------------------
(* A request comes. *)

\* create_message answers from the cache.
Answer(r, p) ==
    /\ reader[r] = "new"
    /\ payload' = [payload EXCEPT ![r] = p]
    /\ Hit(r, p)
    /\ Becomes(r, "cached")
    /\ UNCHANGED <<in_flight, source, muxVars>>

\* It does not: the response is a generator that has yet to run.
Missed(r, p) ==
    /\ reader[r] = "new"
    /\ payload' = [payload EXCEPT ![r] = p]
    /\ Miss(p)
    /\ Becomes(r, "missed")
    /\ UNCHANGED <<in_flight, source, muxVars, got>>

\* RequestDeduplicator.execute: the first request with a hash makes the future
\* and the task, those that come before that task has run await the future.
Join(r) ==
    /\ reader[r] = "missed"
    /\ Becomes(r, "joining")
    /\ LET h == hash_request[payload[r]]
       IN IF in_flight[h] = None
          THEN /\ in_flight' = [in_flight EXCEPT ![h] = r]
               /\ source' = [source EXCEPT ![r] = r]
               /\ upstream' = [upstream EXCEPT ![r] = "due"]
          ELSE /\ source' = [source EXCEPT ![r] = in_flight[h]]
               /\ UNCHANGED <<in_flight, upstream>>
    /\ UNCHANGED <<payload, chunks, done, error, lock, waiters, event, got, cache>>

\* Those that await the future of m.
Joining(m) == {r \in Reader : reader[r] = "joining" /\ source[r] = m}

\* _run_and_resolve: the multiplexer is made, with its task, and given to all
\* that await it.  When the future was cancelled nobody does, and the
\* multiplexer goes on by itself.
Resolve(m) ==
    /\ upstream[m] = "due"
    /\ upstream' = [upstream EXCEPT ![m] = "pulling"]
    /\ in_flight' = [h \in DOMAIN in_flight |-> IF in_flight[h] = m THEN None ELSE in_flight[h]]
    /\ reader' = [r \in Reader |-> IF r \in Joining(m) THEN "resumed" ELSE reader[r]]
    /\ UNCHANGED <<payload, source, chunks, done, error, lock, waiters, event, got, cache>>

-----------------------------------------------------------------------------
(* StreamMultiplexer._consume of m. *)

\* The upstream gives a chunk, and the task asks for the lock.
Pull(m) ==
    /\ upstream[m] = "pulling"
    /\ Len(chunks[m]) < StreamMax[payload[m]]
    /\ upstream' = [upstream EXCEPT ![m] = "appending"]
    /\ Ask(m, Producer)
    /\ UNCHANGED <<reader, payload, in_flight, source, chunks, done, error, waiters, event, got, cache>>

AppendChunk(m) ==
    /\ upstream[m] = "appending" /\ Has(m, Producer)
    /\ chunks' = [chunks EXCEPT ![m] = Append(@, [of |-> m, n |-> Len(@) + 1])]
    /\ event' = event \cup waiters[m]
    /\ upstream' = [upstream EXCEPT ![m] = "pulling"]
    /\ Release(m)
    /\ UNCHANGED <<reader, payload, in_flight, source, done, error, waiters, got, cache>>

\* The upstream raises: the error is there before the lock is.
Raise(m) ==
    /\ upstream[m] = "pulling"
    /\ error' = [error EXCEPT ![m] = TRUE]
    /\ upstream' = [upstream EXCEPT ![m] = "failing"]
    /\ Ask(m, Producer)
    /\ UNCHANGED <<reader, payload, in_flight, source, chunks, done, waiters, event, got, cache>>

\* The except branch wakes all; the finally branch sets _done before it asks
\* for the lock again.
TellError(m) ==
    /\ upstream[m] = "failing" /\ Has(m, Producer)
    /\ event' = event \cup waiters[m]
    /\ done' = [done EXCEPT ![m] = TRUE]
    /\ upstream' = [upstream EXCEPT ![m] = "finishing"]
    /\ Pass(m, Producer)
    /\ UNCHANGED <<reader, payload, in_flight, source, chunks, error, waiters, got, cache>>

\* The upstream ends.
End(m) ==
    /\ upstream[m] = "pulling"
    /\ done' = [done EXCEPT ![m] = TRUE]
    /\ upstream' = [upstream EXCEPT ![m] = "finishing"]
    /\ Ask(m, Producer)
    /\ UNCHANGED <<reader, payload, in_flight, source, chunks, error, waiters, event, got, cache>>

Finish_Silent(m) ==
    /\ upstream[m] = "finishing" /\ Has(m, Producer)
    /\ upstream' = [upstream EXCEPT ![m] = "over"]
    /\ Release(m)
    /\ UNCHANGED <<reader, payload, in_flight, source, chunks, done, error, waiters, event, got, cache>>

Finish(m) ==
    /\ upstream[m] = "finishing" /\ Has(m, Producer)
    /\ event' = event \cup waiters[m]
    /\ upstream' = [upstream EXCEPT ![m] = "over"]
    /\ Release(m)
    /\ UNCHANGED <<reader, payload, in_flight, source, chunks, done, error, waiters, got, cache>>

Consume(m) == Pull(m) \/ AppendChunk(m) \/ Raise(m) \/ TellError(m) \/ End(m) \/ Finish(m)

-----------------------------------------------------------------------------
(* StreamMultiplexer.iterate, and resolve_multiplexer_and_yield around it. *)

Begin(r) ==
    /\ reader[r] = "resumed"
    /\ Becomes(r, "entering")
    /\ Ask(source[r], r)
    /\ UNCHANGED <<payload, in_flight, source, upstream, chunks, done, error, waiters, event, got, cache>>

\* The event is registered, and the lock asked for anew.
Register(r) ==
    LET m == source[r] IN
    /\ reader[r] = "entering" /\ Has(m, r)
    /\ waiters' = [waiters EXCEPT ![m] = @ \cup {r}]
    /\ Becomes(r, "looking")
    /\ Pass(m, r)
    /\ UNCHANGED <<payload, in_flight, source, upstream, chunks, done, error, event, got, cache>>

Yield_Newest(r) ==
    LET m == source[r] IN
    /\ reader[r] = "looking" /\ Has(m, r)
    /\ Len(got[r]) < Len(chunks[m])
    /\ got' = [got EXCEPT ![r] = Append(@, Last(chunks[m]))]
    /\ Becomes(r, "yielding")
    /\ UNCHANGED <<payload, in_flight, source, muxVars, cache>>

\* The next chunk goes to the client; the lock is kept meanwhile.
Yield(r) ==
    LET m == source[r] IN
    /\ reader[r] = "looking" /\ Has(m, r)
    /\ Len(got[r]) < Len(chunks[m])
    /\ got' = [got EXCEPT ![r] = Append(@, chunks[m][Len(@) + 1])]
    /\ Becomes(r, "yielding")
    /\ UNCHANGED <<payload, in_flight, source, muxVars, cache>>

\* The client has taken it.
Take(r) ==
    /\ reader[r] = "yielding"
    /\ Becomes(r, "looking")
    /\ Pass(source[r], r)
    /\ UNCHANGED <<payload, in_flight, source, upstream, chunks, done, error, waiters, event, got, cache>>

NothingToRead(r) == Len(got[r]) = Len(chunks[source[r]])

\* Nothing to read yet: the event is cleared under the lock.
Sleep(r) ==
    LET m == source[r] IN
    /\ reader[r] = "looking" /\ Has(m, r)
    /\ NothingToRead(r) /\ ~done[m]
    /\ event' = event \ {r}
    /\ Becomes(r, "waiting")
    /\ Release(m)
    /\ UNCHANGED <<payload, in_flight, source, upstream, chunks, done, error, waiters, got, cache>>

Wake(r) ==
    /\ reader[r] = "waiting" /\ r \in event
    /\ Becomes(r, "looking")
    /\ Ask(source[r], r)
    /\ UNCHANGED <<payload, in_flight, source, upstream, chunks, done, error, waiters, event, got, cache>>

\* Everything is read: the finally clause asks for the lock once more, behind
\* another reader whose client may be taking a chunk.
ReadAll(r) ==
    LET m == source[r] IN
    /\ reader[r] = "looking" /\ Has(m, r)
    /\ NothingToRead(r) /\ done[m]
    /\ Pass(m, r)
    /\ Becomes(r, "closing")
    /\ UNCHANGED <<payload, in_flight, source, upstream, chunks, done, error, waiters, event, got, cache>>

\* iterate raises the error, or ends; then what it gave is cached.
Close(r) ==
    LET m == source[r] IN
    /\ reader[r] = "closing" /\ Has(m, r)
    /\ waiters' = [waiters EXCEPT ![m] = @ \ {r}]
    /\ Release(m)
    /\ Becomes(r, IF error[m] THEN "failed" ELSE "ended")
    /\ IF ~error[m] /\ got[r] # <<>> THEN CacheSet(payload[r], got[r]) ELSE UNCHANGED cache
    /\ UNCHANGED <<payload, in_flight, source, upstream, chunks, done, error, event, got>>

-----------------------------------------------------------------------------
(* A client disconnects: its task is cancelled wherever it is. *)

\* While it awaits the future, it cancels the future, and with it all others
\* that await it (dedup.py:34).
GoneJoining(r) ==
    /\ reader[r] = "joining"
    /\ reader' = [q \in Reader |-> IF q = r THEN "gone"
                                    ELSE IF q \in Joining(source[r]) THEN "cut" ELSE reader[q]]
    /\ UNCHANGED <<payload, in_flight, source, muxVars, got, cache>>

\* Before it goes on with the multiplexer it was given.
GoneResumed(r) ==
    /\ reader[r] = "resumed"
    /\ Becomes(r, "gone")
    /\ UNCHANGED <<payload, in_flight, source, muxVars, got, cache>>

\* While it waits for the lock or an event: it leaves the queue and, to take
\* its event back, joins it at the end, unless it is cancelled there again.
GoneWaiting(r) ==
    LET others == Remaining(lock[source[r]], {r}) IN
    /\ reader[r] \in {"entering", "looking", "waiting", "closing"}
    /\ ~Has(source[r], r)
    /\ \/ /\ Becomes(r, "leaving")
          /\ lock' = [lock EXCEPT ![source[r]] = Append(others, r)]
       \/ /\ Becomes(r, "gone")
          /\ lock' = [lock EXCEPT ![source[r]] = others]
    /\ UNCHANGED <<payload, in_flight, source, upstream, chunks, done, error, waiters, event, got, cache>>

\* While the client has a chunk to take: the generator is left where it is,
\* with the lock ...
GoneYielding(r) ==
    /\ reader[r] = "yielding"
    /\ Becomes(r, "dropped")
    /\ UNCHANGED <<payload, in_flight, source, muxVars, got, cache>>

\* ... until the event loop closes it.
Collect(r) ==
    /\ reader[r] = "dropped"
    /\ Becomes(r, "leaving")
    /\ Pass(source[r], r)
    /\ UNCHANGED <<payload, in_flight, source, upstream, chunks, done, error, waiters, event, got, cache>>

Leave(r) ==
    LET m == source[r] IN
    /\ reader[r] = "leaving" /\ Has(m, r)
    /\ waiters' = [waiters EXCEPT ![m] = @ \ {r}]
    /\ Becomes(r, "gone")
    /\ Release(m)
    /\ UNCHANGED <<payload, in_flight, source, upstream, chunks, done, error, event, got, cache>>

Gone(r) == GoneJoining(r) \/ GoneResumed(r) \/ GoneWaiting(r) \/ GoneYielding(r)

Iterate(r) ==
    \/ Begin(r) \/ Register(r) \/ Yield(r) \/ Sleep(r) \/ Wake(r)
    \/ ReadAll(r) \/ Close(r) \/ Collect(r) \/ Leave(r)

DeliveryNext ==
    \/ Expire
    \/ \E r \in Reader :
        \/ \E p \in Asks[r] : Answer(r, p) \/ Missed(r, p)
        \/ Join(r) \/ Resolve(r) \/ Consume(r) \/ Iterate(r) \/ Take(r) \/ Gone(r)

DeliverySpec == DeliveryInit /\ [][DeliveryNext]_vars

\* The event loop runs what is ready; the watchdog ends an upstream that gives
\* nothing; and a client takes what it is given or disconnects.
Fairness ==
    \A r \in Reader :
        /\ WF_vars(Resolve(r)) /\ WF_vars(Consume(r)) /\ WF_vars(Iterate(r))
        /\ WF_vars(Take(r) \/ GoneYielding(r))

DeliveryFairSpec == DeliverySpec /\ Fairness

-----------------------------------------------------------------------------
\* Every reader is given the chunks of its multiplexer in order and none twice
\* or left out, at whatever pace the others read (services.py:190-211), and one
\* that ended was given them all.
ReadsInOrder ==
    \A r \in Reader :
        /\ reader[r] \notin {"new", "cached", "missed", "joining", "gone", "cut"} => IsPrefix(got[r], chunks[source[r]])
        /\ reader[r] = "ended" => got[r] = chunks[source[r]] /\ upstream[source[r]] \in {"finishing", "over"}

\* Only whole responses are cached: those of an upstream that ended without an
\* error (services.py:443-449); what failed half way, or was left half way by
\* its client, is asked for anew.
CachedIsWhole ==
    \A i \in DOMAIN cache :
        \E m \in Reader : done[m] /\ ~error[m] /\ cache[i].chunks = chunks[m]

\* Whoever reads is told how it ends: no wake-up is lost between the look and
\* the wait, and nobody keeps the lock for ever.
EveryReaderIsTold ==
    \A r \in Reader :
        reader[r] = "joining" ~> reader[r] \in {"ended", "failed", "gone", "cut"}

\* "Deduplicates concurrent identical in-flight requests" (dedup.py:9): who
\* shares a response asked for the same.
OnlyIdenticalShare ==
    \A r \in Reader : source[r] # None => payload[source[r]] = payload[r]

\* Every reader gets one producer's answer from its first chunk on, and only a
\* whole answer without an error is cached
\* (dedup.py and cache.py with services.py: StreamMultiplexer).
AnswersAreWhole == TypeOK /\ ReadsInOrder /\ CachedIsWhole
=============================================================================

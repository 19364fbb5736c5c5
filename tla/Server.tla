-------------------------------- MODULE Server --------------------------------
(***************************************************************************)
(* The server around the requests: what serve() in cli/entrypoints.py runs *)
(* again and again (start, serve, drain, shut down, restart on demand), the*)
(* registry of provider clients (providers/registry.py), and the admin     *)
(* page that replaces settings and registry while requests are under way   *)
(* (api/admin_routes.py).                                                  *)
(*                                                                         *)
(* Settings are abstracted to their version: every write of the settings   *)
(* file makes a new one and drops the cached object in the same step, so   *)
(* that get_settings() returns `saved`.  An entry of a registry is a       *)
(* provider id, or a provider id with one of its API keys.  Clients are    *)
(* numbered in the order they are created, registries too.  An await is    *)
(* where a step ends.                                                      *)
(***************************************************************************)
EXTENDS Naturals, Sequences, FiniteSets, Queues

CONSTANTS Request,     \* requests that use a provider; used again after they end
          Admin,       \* posts of the admin page
          Down,        \* the shut-down, the other one that cleans a registry
          Entry,       \* cache keys of a registry
          SaveMax,     \* bound: how often the settings are written
          ClientMax    \* bound: how many provider clients are created

ASSUME ServerAssumption ==
    /\ Down \notin Admin
    /\ IsFiniteSet(Entry)
    /\ SaveMax \in Nat /\ ClientMax \in Nat

VARIABLES
    phase,     \* "starting", "serving", "draining", "stopping" or "ended"
    steps,     \* steps of the shut-down that are left
    restart,   \* restart_requested of _run_supervised_server
    saved,     \* version of the settings in the file
    current,   \* app.state.provider_registry; 0 before the first
    own,       \* AppRuntime._provider_registry
    cache,     \* ProviderRegistry._providers, of each registry so far
    client,    \* the provider clients: their settings and what became of them
    cleaning,  \* the calls of ProviderRegistry.cleanup that are under way
    request    \* what each request knows and does

serverVars == <<phase, steps, restart, saved, current, own, cache, client,
                cleaning, request>>

Cleaner == Admin \cup {Down}

NotCleaning == [registry |-> 0, items |-> <<>>, next |-> 1, failed |-> FALSE]

NoRequest == [at |-> "none", settings |-> 0, client |-> 0]

ShutdownSteps == <<"platform", "cli", "providers", "limiter">>

ServerTypeOK ==
    /\ phase \in {"starting", "serving", "draining", "stopping", "ended"}
    /\ steps \in Seq({"platform", "cli", "providers", "limiter"})
    /\ restart \in BOOLEAN
    /\ saved \in 0..SaveMax
    /\ current \in 0..Len(cache) /\ own \in 0..Len(cache)
    /\ cache \in Seq([Entry -> 0..Len(client)])
    /\ client \in Seq([settings : 0..SaveMax, state : {"open", "closed", "failed"}])
    /\ cleaning \in [Cleaner -> [registry : 0..Len(cache), items : Seq(1..Len(client)),
                                 next : Nat, failed : BOOLEAN]]
    /\ request \in [Request -> [at : {"none", "waiting", "using"},
                                settings : 0..SaveMax, client : 0..Len(client)]]

ServerInit ==
    /\ phase = "starting"
    /\ steps = <<>>
    /\ restart = FALSE
    /\ saved = 0
    /\ current = 0 /\ own = 0
    /\ cache = <<>>
    /\ client = <<>>
    /\ cleaning = [x \in Cleaner |-> NotCleaning]
    /\ request = [r \in Request |-> NoRequest]

-----------------------------------------------------------------------------
(* The registry. *)

Empty == [e \in Entry |-> 0]

\* get of an entry that is not cached: create_provider with these settings.
Created(g, e, settings) ==
    /\ cache[g][e] = 0 /\ Len(client) < ClientMax
    /\ client' = Append(client, [settings |-> settings, state |-> "open"])
    /\ cache' = [cache EXCEPT ![g][e] = Len(client')]

\* get of an entry that is cached, whatever the settings.
Cached(g, e) == cache[g][e] # 0 /\ UNCHANGED <<client, cache>>

Get(g, e, settings) == Cached(g, e) \/ Created(g, e, settings)

\* What is cached, oldest first: the items of the dict.
Items(g) == Remaining([i \in DOMAIN client |-> i], DOMAIN client \ {cache[g][e] : e \in Entry})

Cleared_OnSuccess(g) ==
    IF \E x \in Cleaner : cleaning[x].registry = g /\ cleaning[x].failed
    THEN UNCHANGED cache
    ELSE cache' = [cache EXCEPT ![g] = Empty]

\* The end of cleanup, with or without errors: `finally` empties the cache.
Cleared(g) == cache' = [cache EXCEPT ![g] = Empty]

-----------------------------------------------------------------------------
(* The admin page. *)

\* write_managed_env with values that are valid; others change nothing.
Save == saved < SaveMax /\ saved' = saved + 1

\* The callback of the admin page: uvicorn is told to exit.
RequestRestart ==
    /\ restart' = TRUE
    /\ phase' = "draining"

\* apply_admin_config of a field that needs a restart, and switch_profile.
ApplyAndRestart ==
    /\ phase = "serving"
    /\ Save
    /\ RequestRestart
    /\ UNCHANGED <<steps, current, own, cache, client, cleaning, request>>

\* A new registry takes the place of the one that was cleaned.
Replaced(g) ==
    /\ cache' = Append([cache EXCEPT ![g] = Empty], Empty)
    /\ current' = Len(cache')

\* apply_admin_config of other fields: the registry in use is cleaned first.
Apply(a) ==
    /\ phase = "serving" /\ cleaning[a] = NotCleaning
    /\ Save
    /\ IF Items(current) = <<>>
       THEN Replaced(current) /\ UNCHANGED cleaning
       ELSE /\ cleaning' = [cleaning EXCEPT ![a] =
                    [registry |-> current, items |-> Items(current), next |-> 1, failed |-> FALSE]]
            /\ UNCHANGED <<cache, current>>
    /\ UNCHANGED <<phase, steps, restart, own, client, request>>

\* import_config writes the settings and leaves the registry alone.
Import ==
    /\ phase = "serving"
    /\ Save
    /\ UNCHANGED <<phase, steps, restart, current, own, cache, client, cleaning, request>>

-----------------------------------------------------------------------------
(* cleanup: one client after the other, whether or not it can be closed. *)

Closed(i, how) ==
    client' = [client EXCEPT ![i].state = IF @ = "closed" THEN @ ELSE how]

\* The cleanup goes on with the next client; a failure is kept for later.
GoesOn(x, how) ==
    LET c == cleaning[x]
    IN  cleaning' = [cleaning EXCEPT ![x] =
            [registry |-> c.registry, items |-> c.items, next |-> c.next + 1,
             failed |-> c.failed \/ how = "failed"]]

CloseNext(x) ==
    /\ cleaning[x].next =< Len(cleaning[x].items)
    /\ \E how \in {"closed", "failed"} :
           /\ Closed(cleaning[x].items[cleaning[x].next], how)
           /\ GoesOn(x, how)
    /\ UNCHANGED <<phase, steps, restart, saved, current, own, cache, request>>

\* Nothing is awaited from here to the end of the cleanup: what others do in
\* between they could as well do before the last client is closed.
ClosedAll(x) == cleaning[x].registry # 0 /\ cleaning[x].next > Len(cleaning[x].items)

\* The end of apply_admin_config; after an error the registry stays in use.
ApplyEnds(a) ==
    /\ ClosedAll(a)
    /\ IF cleaning[a].failed
       THEN Cleared(cleaning[a].registry) /\ UNCHANGED current
       ELSE Replaced(cleaning[a].registry)
    /\ cleaning' = [cleaning EXCEPT ![a] = NotCleaning]
    /\ UNCHANGED <<phase, steps, restart, saved, own, client, request>>

-----------------------------------------------------------------------------
(* Requests. *)

\* get_proxy_service takes the settings of this moment.
Arrive(r) ==
    /\ phase = "serving" /\ request[r].at = "none"
    /\ request' = [request EXCEPT ![r] = [at |-> "waiting", settings |-> saved, client |-> 0]]
    /\ UNCHANGED <<phase, steps, restart, saved, current, own, cache, client, cleaning>>

\* provider_getter, called when the request has its turn: the registry of
\* this moment with the settings of the arrival.
Resolve(r) ==
    /\ request[r].at = "waiting"
    /\ \E e \in Entry :
           /\ Get(current, e, request[r].settings)
           /\ request' = [request EXCEPT ![r] =
                  [at |-> "using", settings |-> @.settings, client |-> cache'[current][e]]]
    /\ UNCHANGED <<phase, steps, restart, saved, current, own, cleaning>>

\* The admin page tests a provider or refreshes a model list, and the model
\* list of /v1/models is warmed: settings and registry of the same moment.
Query(r) ==
    /\ phase = "serving" /\ request[r].at = "none"
    /\ \E e \in Entry :
           /\ Get(current, e, saved)
           /\ request' = [request EXCEPT ![r] =
                  [at |-> "using", settings |-> saved, client |-> cache'[current][e]]]
    /\ UNCHANGED <<phase, steps, restart, saved, current, own, cleaning>>

\* The answer, a refusal (no credential, no such provider) or an error.
Answer(r) ==
    /\ request[r].at # "none"
    /\ request' = [request EXCEPT ![r] = NoRequest]
    /\ UNCHANGED <<phase, steps, restart, saved, current, own, cache, client, cleaning>>

-----------------------------------------------------------------------------
(* The process. *)

\* validate_configured_models of a new registry: the providers of the configured
\* models are created and asked; whatever they answer, the server starts.
ValidateConfigured(asked) ==
    LET n == Cardinality(asked)
        order == CHOOSE f \in [asked -> 1..n] : {f[e] : e \in asked} = 1..n
        made == [e \in Entry |-> IF e \in asked THEN Len(client) + order[e] ELSE 0]
    IN  /\ Len(client) + n =< ClientMax
        /\ cache' = Append(cache, made)
        /\ client' = client \o [i \in 1..n |-> [settings |-> saved, state |-> "open"]]

\* AppRuntime.startup; when it raises, only the registry is cleaned.
Startup(asked) ==
    /\ phase = "starting"
    /\ ValidateConfigured(asked)
    /\ current' = Len(cache') /\ own' = Len(cache')
    /\ \/ phase' = "serving" /\ UNCHANGED steps
       \/ phase' = "stopping" /\ steps' = <<"providers">>
    /\ restart' = FALSE
    /\ UNCHANGED <<saved, cleaning, request>>

\* A signal ends the process (uvicorn's own handler).
Stop ==
    /\ phase = "serving"
    /\ phase' = "draining"
    /\ UNCHANGED <<steps, restart, saved, current, own, cache, client, cleaning, request>>

\* uvicorn waits for the requests; after five seconds it cancels them.
Drained ==
    /\ phase = "draining"
    /\ phase' = "stopping"
    /\ \E messaging \in BOOLEAN :
           steps' = IF messaging THEN ShutdownSteps ELSE SubSeq(ShutdownSteps, 3, 4)
    /\ request' = [r \in Request |-> NoRequest]
    /\ cleaning' = [x \in Cleaner |-> NotCleaning]
    /\ cache' = [g \in DOMAIN cache |->
           IF \E a \in Admin : cleaning[a].registry = g THEN Empty ELSE cache[g]]
    /\ UNCHANGED <<restart, saved, current, own, client>>

\* graceful_shutdown begins: the registry that AppRuntime made is cleaned.
CleanUp ==
    /\ phase = "stopping" /\ steps # <<>> /\ Head(steps) = "providers"
    /\ cleaning[Down] = NotCleaning
    /\ cleaning' = [cleaning EXCEPT ![Down] =
           [registry |-> own, items |-> Items(own), next |-> 1, failed |-> FALSE]]
    /\ UNCHANGED <<phase, steps, restart, saved, current, own, cache, client, request>>

\* graceful_shutdown has logged the errors of the cleanup and returned.
CleanUpEnds ==
    /\ ClosedAll(Down)
    /\ Cleared(own)
    /\ cleaning' = [cleaning EXCEPT ![Down] = NotCleaning]
    /\ steps' = Tail(steps)
    /\ UNCHANGED <<phase, restart, saved, current, own, client, request>>

\* A step returns or raises; it may also never do either.
StepEnds ==
    /\ phase = "stopping" /\ steps # <<>> /\ Head(steps) # "providers"
    /\ steps' = Tail(steps)
    /\ UNCHANGED <<phase, restart, saved, current, own, cache, client, cleaning, request>>

StepTimesOut_NotOfCleanup ==
    /\ phase = "stopping" /\ steps # <<>> /\ cleaning[Down] = NotCleaning
    /\ Head(steps) # "providers"
    /\ steps' = Tail(steps)
    /\ UNCHANGED <<phase, restart, saved, current, own, cache, client, cleaning, request>>

\* best_effort gives up on a step; a cleanup still empties the cache.
StepTimesOut ==
    /\ phase = "stopping" /\ steps # <<>>
    /\ steps' = Tail(steps)
    /\ IF cleaning[Down] = NotCleaning THEN UNCHANGED cache ELSE Cleared(own)
    /\ cleaning' = [cleaning EXCEPT ![Down] = NotCleaning]
    /\ UNCHANGED <<phase, restart, saved, current, own, client, request>>

\* server.run has returned: serve() goes round again, or the process ends.
Exit ==
    /\ phase = "stopping" /\ steps = <<>>
    /\ phase' = IF restart THEN "starting" ELSE "ended"
    /\ current' = 0 /\ own' = 0
    /\ UNCHANGED <<steps, restart, saved, cache, client, cleaning, request>>

-----------------------------------------------------------------------------
ServerNext ==
    \/ \E asked \in SUBSET Entry : Startup(asked)
    \/ \E r \in Request : Arrive(r) \/ Resolve(r) \/ Query(r) \/ Answer(r)
    \/ ApplyAndRestart \/ Import \/ \E a \in Admin : Apply(a) \/ ApplyEnds(a)
    \/ \E x \in Cleaner : CloseNext(x)
    \/ Stop \/ Drained \/ CleanUp \/ CleanUpEnds \/ StepEnds \/ StepTimesOut \/ Exit

ServerSpec == ServerInit /\ [][ServerNext]_serverVars

\* Timers fire and the loop runs what is ready; nothing is assumed of the
\* steps of a shut-down or of the clients that are closed.
ServerFairness == WF_serverVars(Drained) /\ WF_serverVars(StepTimesOut) /\ WF_serverVars(Exit)

-----------------------------------------------------------------------------
\* A registry in use hands out clients that are open, unless it is being
\* cleaned at this moment: a cleanup that failed part way leaves none of those
\* it closed behind (registry.py:541-552 and admin_routes.py:144-147).
NoClosedClientInUse ==
    phase = "serving" /\ (\A x \in Cleaner : cleaning[x].registry # current) =>
        \A e \in Entry : cache[current][e] # 0 => client[cache[current][e]].state = "open"

\* "Attempts all providers even if one fails" (registry.py:530): when a cleanup
\* reaches its end, none of the clients that were cached at its beginning is open.
CleanupTriesAll ==
    \A x \in Cleaner : ClosedAll(x) =>
        \A i \in DOMAIN cleaning[x].items : client[cleaning[x].items[i]].state # "open"

\* A shut-down ends although any of its steps may hang, and the server that
\* was asked to restart comes back (runtime.py:28-53, entrypoints.py:70-77).
ServerComesBack ==
    /\ (phase = "draining" /\ restart) ~> (phase = "starting")
    /\ (phase = "draining") ~> (phase \in {"starting", "ended"})

\* What a registry hands out, and what its cleanup leaves behind
\* (registry.py: ProviderRegistry).
ClientsAreKept == ServerTypeOK /\ NoClosedClientInUse /\ CleanupTriesAll
=============================================================================

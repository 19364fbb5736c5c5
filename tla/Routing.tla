------------------------------- MODULE Routing -------------------------------
(***************************************************************************)
(* api/model_router.py with api/gateway_model_ids.py: which provider and   *)
(* model answer a request.  The router is made anew for each request; what *)
(* it remembers between requests is the module's: the model each session   *)
(* was given first (sticky sessions) and the provider that last succeeded. *)
(* The administrator may change the settings in between.                   *)
(*                                                                         *)
(* A model name is [provider, model, think]: provider is "" for a Claude   *)
(* name; think is "off" in the gateway's no-thinking ids.                  *)
(***************************************************************************)
EXTENDS Integers, Sequences, SequencesExt, FiniteSets

CONSTANTS
    Session,    \* the client sessions
    Settings,   \* the settings the administrator chooses from
    Asked,      \* the model names clients ask for
    Trait,      \* what routers look for in a request
    Provider,   \* the providers that may succeed
    PinnedMax,  \* sessions remembered (1000 in the code)
    RouteMax    \* requests

Name(p, m) == [provider |-> p, model |-> m, think |-> "default"]

\* The targets the routers are written with.
Target ==
    [context |-> Name("gemini", "pro"), tools |-> Name("openai", "gpt"),
     language |-> Name("gemini", "pro"), coding |-> Name("github_models", "sonnet"),
     math |-> Name("gemini", "pro"), night |-> Name("aerolink", "sonnet"),
     canary |-> Name("openrouter", "canary"), cost |-> Name("aerolink", "sonnet")]

ASSUME RoutingAssumption ==
    /\ PinnedMax \in Nat \ {0} /\ RouteMax \in Nat
    /\ Trait \subseteq DOMAIN Target

VARIABLES
    settings,  \* the settings in force
    pinned,    \* _SESSION_PROVIDER_MAP, oldest first: [session, resolved]
    last,      \* _LAST_SUCCESSFUL_PROVIDER, "" before any success
    previous,  \* what the session's last sticky request was given
    newcomers, \* sessions pinned since the session was
    routed     \* requests so far

routingVars == <<settings, pinned, last, previous, newcomers, routed>>

(***************************************************************************)
(* resolve_messages_request.                                               *)
(***************************************************************************)

Alias(name) == IF name \in DOMAIN settings.aliases THEN settings.aliases[name] ELSE name

\* The routers, in their order.  One that is enabled hides those behind it,
\* whether it applies or not; the tool router only when there are tools.
Order == <<"context", "tools", "language", "task", "night", "canary", "cost">>

Deciding(traits) ==
    SelectSeq(Order, LAMBDA r : r \in settings.routers /\ (r = "tools" => r \in traits))

RoutedName(name, traits) ==
    IF Deciding(traits) = <<>> THEN name
    ELSE LET r == Deciding(traits)[1]
             hits == IF r = "task" THEN {"coding", "math"} \cap traits
                     ELSE IF r = "cost" THEN IF name.provider = "" THEN {r} ELSE {}
                     ELSE {r} \cap traits
         IN  IF hits = {} THEN name
             ELSE Target[IF "coding" \in hits THEN "coding" ELSE CHOOSE h \in hits : TRUE]

\* Failover memory, then the first provider of the priority groups with a key.
Preferred(name) ==
    IF name.provider # "" THEN name
    ELSE IF settings.failover /\ last # "" THEN Name(last, name.model)
    ELSE LET keyed == SelectSeq(settings.groups, LAMBDA p : p \in settings.keyed)
         IN  IF keyed = <<>> THEN name ELSE Name(keyed[1], name.model)

\* resolve: a provider's own name is taken as it is, a Claude name through the
\* settings' model for it.
ResolveName(asked) ==
    LET name == Alias(asked)
        direct == name.provider # ""
        served == IF direct THEN name ELSE settings.model[name.model]
    IN  [provider_id |-> served.provider, provider_model |-> served.model,
         thinking_enabled |-> name.think # "off" /\ settings.thinking]

Pinned(s) == {i \in DOMAIN pinned : pinned[i].session = s}

Remember_DropsNewest(s, resolved) ==
    LET all == Append(pinned, [session |-> s, resolved |-> resolved])
    IN  IF Len(all) > PinnedMax THEN Front(all) ELSE all

Remember(s, resolved) ==
    LET all == Append(pinned, [session |-> s, resolved |-> resolved])
    IN  IF Len(all) > PinnedMax THEN Tail(all) ELSE all

Routed(s, resolved) ==
    /\ routed < RouteMax
    /\ routed' = routed + 1
    /\ previous' = IF settings.sticky THEN [previous EXCEPT ![s] = resolved] ELSE previous
    /\ UNCHANGED <<settings, last>>

\* A request of a session that is remembered, whatever it asks for.
RouteSticky(s) ==
    \E i \in Pinned(s) :
        /\ settings.sticky
        /\ Routed(s, pinned[i].resolved)
        /\ UNCHANGED <<pinned, newcomers>>

RouteFresh(s, asked, traits) ==
    LET resolved == ResolveName(Preferred(RoutedName(Alias(asked), traits)))
    IN  /\ settings.sticky => Pinned(s) = {}
        /\ Routed(s, resolved)
        /\ IF settings.sticky
           THEN /\ pinned' = Remember(s, resolved)
                /\ newcomers' = [t \in Session |-> IF t = s THEN {} ELSE newcomers[t] \cup {s}]
           ELSE UNCHANGED <<pinned, newcomers>>

\* services.py: the provider whose stream ended without an error.
Succeed(p) ==
    /\ settings.failover
    /\ last' = p
    /\ UNCHANGED <<settings, pinned, previous, newcomers, routed>>

ChangeSettings(new) ==
    /\ settings' = new
    /\ UNCHANGED <<pinned, last, previous, newcomers, routed>>

None == [provider_id |-> "", provider_model |-> "", thinking_enabled |-> FALSE]

RoutingInit ==
    /\ settings \in Settings
    /\ pinned = <<>>
    /\ last = ""
    /\ previous = [s \in Session |-> None]
    /\ newcomers = [s \in Session |-> {}]
    /\ routed = 0

RoutingNext ==
    \/ \E s \in Session : RouteSticky(s)
    \/ \E s \in Session, asked \in Asked, traits \in SUBSET Trait : RouteFresh(s, asked, traits)
    \/ \E p \in Provider : Succeed(p)
    \/ \E new \in Settings : ChangeSettings(new)

RoutingSpec == RoutingInit /\ [][RoutingNext]_routingVars

(***************************************************************************)
(* The property.                                                           *)
(***************************************************************************)

\* A session keeps the provider and model it was given until as many other
\* sessions as the map holds have come after it, whatever its later requests
\* ask for, whichever provider fails or succeeds, and however the settings are
\* changed and changed back (model_router.py:140-156, 331-336).
StickyUntilCrowdedOut ==
    [][\A s \in Session :
        previous[s] # None /\ previous'[s] # previous[s]
            => Cardinality(newcomers[s]) >= PinnedMax]_routingVars
=============================================================================

----------------------------- MODULE MCUpstream -----------------------------
(***************************************************************************)
(* What happens to a request and its answer around the upstream, each step *)
(* by itself: the model it is routed to, the conversation rewritten for an *)
(* OpenAI upstream or replayed to a native one, the provider's rate limit, *)
(* and on the way back the thinking tags and the chat message's transcript.*)
(* The symmetry is between the callers of the rate limiter, which nothing  *)
(* else mentions.                                                          *)
(***************************************************************************)
EXTENDS ProviderLimiter, Conversion, Transcript, ThinkTags, Routing, Replay, TLC

CONSTANTS c1, c2, c3

Requests == Permutations({c1, c2, c3})

\* The third id begins like the first.
MCTaskId == <<<<1, 1>>, <<1, 2>>, <<1, 1, 0>>>>

Opus == Name("", "opus")

Plain ==
    [aliases |-> [n \in {} |-> n], routers |-> {}, sticky |-> TRUE, failover |-> FALSE,
     groups |-> <<>>, keyed |-> {}, thinking |-> TRUE,
     model |-> [m \in {"opus"} |-> Name("nvidia_nim", "glm")]]

MCSettings ==
    {Plain,
     [Plain EXCEPT !.sticky = FALSE, !.routers = {"context", "cost"}],
     [Plain EXCEPT !.failover = TRUE, !.routers = {"tools", "task"}],
     [Plain EXCEPT !.groups = <<"openai", "deepseek">>, !.keyed = {"deepseek"},
                   !.aliases = [n \in {Opus} |-> [Opus EXCEPT !.think = "off"]]]}

MCAsked == {Opus, Name("deepseek", "chat")}

VARIABLE part \* which of them this behaviour is about

MCInit ==
    /\ part \in {"limit", "convert", "show", "think", "route", "replay"}
    /\ LimiterInit /\ ConversionInit /\ TranscriptInit
    /\ ThinkInit /\ RoutingInit /\ ReplayInit
    /\ part # "convert" => reasoning_replay = "disabled"
    /\ part # "show" => style = "all"
    /\ part # "route" => settings = Plain
    /\ part # "replay" => ~asks.thinking_enabled /\ ~asks.hints

Limit == part = "limit" /\ LimiterNext
    /\ UNCHANGED <<part, conversionVars, transcriptVars, thinkVars, routingVars, replayVars>>

Convert == part = "convert" /\ ConversionNext
    /\ UNCHANGED <<part, limiterVars, transcriptVars, thinkVars, routingVars, replayVars>>

Show == part = "show" /\ TranscriptNext
    /\ UNCHANGED <<part, limiterVars, conversionVars, thinkVars, routingVars, replayVars>>

Think == part = "think" /\ ThinkNext
    /\ UNCHANGED <<part, limiterVars, conversionVars, transcriptVars, routingVars, replayVars>>

Route == part = "route" /\ RoutingNext
    /\ UNCHANGED <<part, limiterVars, conversionVars, transcriptVars, thinkVars, replayVars>>

ReplayIt == part = "replay" /\ ReplayNext
    /\ UNCHANGED <<part, limiterVars, conversionVars, transcriptVars, thinkVars, routingVars>>

MCSpec ==
    /\ MCInit
    /\ [][Limit \/ Convert \/ Show \/ Think \/ Route \/ ReplayIt]_<<part, limiterVars,
            conversionVars, transcriptVars, thinkVars, routingVars, replayVars>>
=============================================================================

------------------------------ MODULE MCRuntime ------------------------------
(***************************************************************************)
(* What the server process runs beside the requests: the session store     *)
(* with its timer threads, the server with its registry and admin page,    *)
(* the files that page writes, the chat platform, and the queue of calls   *)
(* to it.  They share nothing here, so that each behaviour is about one of *)
(* them.  Three timer threads let two late ones overlap with a new one;    *)
(* two posts of the admin page clean registries at once.                   *)
(***************************************************************************)
EXTENDS SessionStore, Server, Platform, MessagingLimiter, ConfigFiles, TLC

CONSTANTS t1, t2, t3, q1, a1, a2, e1, e2, n1, m1, m2

\* Three fields: a key, the token, and a port that is not in the template.
Fields == {"key", "token", "port"}

MCTemplate == "key" :> "" @@ "token" :> "freecc"

Defaults == [f \in Fields |-> IF f = "port" THEN "8082" ELSE ""]

MCOutside ==
    [repo : {NoFile, "port" :> "1", "key" :> "k" @@ "token" :> "t"},
     explicit : {NoFile, "key" :> "e"},
     process : {NoFile, "port" :> "2" @@ "token" :> "s"},
     legacy : {NoFile, "port" :> "3"},
     supervised : BOOLEAN]

MCUpdates == {"key" :> "a", "key" :> Masked @@ "port" :> "9", "token" :> "b", "port" :> Invalid}

Alone == [repo |-> NoFile, explicit |-> NoFile, process |-> NoFile, legacy |-> NoFile,
          supervised |-> TRUE]

VARIABLE part \* which of them this behaviour is about

MCInit ==
    /\ part \in {"store", "server", "platform", "limiter", "config"}
    /\ IF part = "config" THEN outside \in Outside ELSE outside = Alone
    /\ Init /\ ServerInit /\ PlatformInit /\ LimiterInit /\ ConfigInit

Store == part = "store" /\ Next
    /\ UNCHANGED <<part, serverVars, platformVars, limiterVars, configVars>>

Serve == part = "server" /\ ServerNext
    /\ UNCHANGED <<part, vars, platformVars, limiterVars, configVars>>

Chat == part = "platform" /\ PlatformNext
    /\ UNCHANGED <<part, vars, serverVars, limiterVars, configVars>>

Queue == part = "limiter" /\ LimiterNext
    /\ UNCHANGED <<part, vars, serverVars, platformVars, configVars>>

Configure == part = "config" /\ ConfigNext
    /\ UNCHANGED <<part, vars, serverVars, platformVars, limiterVars>>

MCFairness ==
    /\ StoreFairness
    /\ ServerFairness
    /\ PlatformFairness
    /\ LimiterFairness

MCSpec ==
    /\ MCInit
    /\ [][Store \/ Serve \/ Chat \/ Queue \/ Configure]_<<part, vars, serverVars, platformVars,
                                                         limiterVars, configVars>>
    /\ MCFairness
=============================================================================

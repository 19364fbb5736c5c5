---------------------------- MODULE MCReliability ----------------------------
(***************************************************************************)
(* The parts of core/reliability that requests share, each by itself: the  *)
(* delivery of a response to its readers, the pool of keys under the       *)
(* administrator's changes, and the breaker with overlapping calls.        *)
(* Requests composes the last two with the pipeline.                       *)
(***************************************************************************)
EXTENDS Delivery, CircuitBreaker, KeyPool

CONSTANTS r1, r2, a, b, p, k1, k2, k3

MCHash == [x \in Payload |-> 0]

MCAsks == [r \in Reader |-> IF r = r1 THEN {a} ELSE Payload]

MCStreamMax == [x \in Payload |-> IF x = a THEN 2 ELSE 1]

MCEnvKeys == [x \in Pool |-> <<k1, k2>>]

VARIABLE part \* which of them this behaviour is about

MCInit ==
    /\ part \in {"delivery", "breaker", "pool"}
    /\ DeliveryInit /\ BreakerInit /\ PoolInit

Deliver == part = "delivery" /\ DeliveryNext /\ UNCHANGED <<part, breakerVars, poolVars>>

Guard == part = "breaker" /\ BreakerNext /\ UNCHANGED <<part, vars, poolVars>>

Hand == part = "pool" /\ PoolNext /\ UNCHANGED <<part, vars, breakerVars>>

MCSpec ==
    /\ MCInit
    /\ [][Deliver \/ Guard \/ Hand]_<<part, vars, breakerVars, poolVars>>
    /\ Fairness
=============================================================================

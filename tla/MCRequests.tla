----------------------------- MODULE MCRequests -----------------------------
(***************************************************************************)
(* Two requests on two providers: p1 has one key, q1 needs none.  One has  *)
(* a fallback, in either order of load balancing, and answers of up to two *)
(* chunks; the other has none.  One failure opens a breaker, so that each  *)
(* request meets what the other leaves behind.                             *)
(***************************************************************************)
EXTENDS Requests

CONSTANTS r1, r2, p1, q1, k1

MCModels == [r \in Request |-> IF r = r1 THEN <<p1, q1>> ELSE <<p1>>]

MCEnvKeys == [x \in Pool |-> IF x = p1 THEN <<k1>> ELSE <<>>]

MCChunkMax == [r \in Request |-> IF r = r1 THEN 2 ELSE 1]
=============================================================================

--------------------------- MODULE MCMessageTree ---------------------------
(* One conversation with three replies. *)
EXTENDS MessageTree, TLC

CONSTANTS a, b, c

Replies == Permutations({a, b, c})
=============================================================================

-------------------------------- MODULE Queues --------------------------------
(***************************************************************************)
(* The queues of the program (deques of messages, waiters of an asyncio    *)
(* lock or semaphore) are sequences.  Elements leave them at the head, or  *)
(* from anywhere when they are cancelled.  What is left when some leave is *)
(* a recursive function here and not SelectSeq, which the prover takes for *)
(* an unknown operator.                                                    *)
(***************************************************************************)
EXTENDS Integers, Sequences

\* The queue q when the elements of S have left it: the others keep their order.
Remaining(q, S) ==
    LET kept[i \in 0..Len(q)] ==
            IF i = 0 THEN <<>>
            ELSE IF q[i] \in S THEN kept[i - 1]
            ELSE Append(kept[i - 1], q[i])
    IN  kept[Len(q)]

\* The elements of the sequence q that are in S, in their order.
Among(q, S) == Remaining(q, {q[i] : i \in DOMAIN q} \ S)
=============================================================================

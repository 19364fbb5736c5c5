-------------------------------- MODULE Turns --------------------------------
(***************************************************************************)
(* What a message tree promises about its queue: messages take turns.  One *)
(* message has the turn, the others wait in the order they were submitted, *)
(* a message has at most one turn, and a waiting one may be withdrawn.     *)
(* A turn can also be lost: the tree then passes to nobody.                *)
(***************************************************************************)
EXTENDS SequencesExt, Queues

CONSTANT Message

VARIABLES waiting,  \* submitted messages, first in first out
          active,   \* the message whose turn it is: at most one
          served    \* messages that had or have their turn

vars == <<waiting, active, served>>

Init ==
    /\ waiting = <<>>
    /\ active \in {{}} \cup {{m} : m \in Message}
    /\ served = active

Take(m) ==
    /\ m \notin served
    /\ active' = {m}
    /\ served' = served \cup {m}

\* Submitted to an idle queue: the turn begins at once.
TakeAtOnce(m) ==
    /\ active = {}
    /\ Take(m)
    /\ UNCHANGED waiting

Submit(m) ==
    /\ m \notin served \cup ToSet(waiting)
    /\ waiting' = Append(waiting, m)
    /\ UNCHANGED <<active, served>>

Withdraw ==
    /\ \E gone \in SUBSET ToSet(waiting) :
          waiting' = Remaining(waiting, gone)
    /\ UNCHANGED <<active, served>>

\* A turn ends and the first waiting message, if any, has the next one.
PassOn ==
    /\ active # {} /\ waiting # <<>>
    /\ Take(Head(waiting))
    /\ waiting' = Tail(waiting)

\* A turn ends with nobody to pass it to, or with a message that is gone.
EndTurn ==
    /\ active # {}
    /\ active' = {}
    /\ waiting' \in {waiting} \cup {Tail(waiting) : w \in ToSet(waiting)}
    /\ UNCHANGED served

Next ==
    \/ \E m \in Message : TakeAtOnce(m) \/ Submit(m)
    \/ Withdraw \/ PassOn \/ EndTurn

Spec == Init /\ [][Next]_vars
=============================================================================

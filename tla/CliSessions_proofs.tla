-------------------------- MODULE CliSessions_proofs --------------------------
(***************************************************************************)
(* The sessions of the CLI are sound for any number of tasks, replies and  *)
(* stops.  The inductive invariant relates who waits for the manager's     *)
(* lock, who was cancelled, which session sits under which id and which    *)
(* process may run without having been told to stop.                       *)
(***************************************************************************)
EXTENDS CliSessions, Queues_proofs, TLAPS

-----------------------------------------------------------------------------
(* The lock. *)

\* Those in line for the lock are the tasks suspended at it.
InLine == \A t \in Task : t \in ToSet(lock) <=> Waits(t)
StopperInLine == Stopper \in ToSet(lock) <=> stop_all # "idle"

\* Who stops a session holds the lock.
StoppingHolds == \A t \in Task : pc[t] = "stopping" => Holds(t)
StopAllHolds == stop_all = "stopping" => Holds(Stopper)

LockInv == InLine /\ StopperInLine /\ StoppingHolds /\ StopAllHolds

(* Cancellation, and what a task has done so far. *)

Late == {"killing", "draining", "cleaning", "removing", "stopping", "ended"}
Over(t) == pc[t] = "ended" \/ cancelled[t]

CancelledIsLate == \A t \in Task : cancelled[t] => pc[t] \in Late
FreedIsCancelled == \A t \in freed : cancelled[t]
ActiveIsCurrent == \A t \in Task : Active(t) => t \in current \/ cancelled[t]

\* Of two replies to one message, one has ended or was cancelled.
OneReplyRuns ==
    \A s, t \in Task :
        /\ s # t /\ pc[s] # "idle" /\ pc[t] # "idle"
        /\ parent[s] = parent[t] /\ parent[s] # NoParent
        => Over(s) \/ Over(t)

NoKeyYet == \A t \in Task : pc[t] \in {"idle", "creating"} => key[t] = None
NothingRemovedYet == \A t \in Task : pc[t] \notin {"stopping", "ended"} => removed[t] = None

CancelInv ==
    /\ CancelledIsLate /\ FreedIsCancelled /\ ActiveIsCurrent
    /\ OneReplyRuns /\ NoKeyYet /\ NothingRemovedYet

(* The maps of the manager. *)

\* A session sits under the id its task will remove it by.
PendingUnderKey == \A i \in Id : \A s \in Task : pending_sessions[i] = s => i = TempId(s) /\ key[s] = i
SessionUnderKey == \A i \in Id : \A s \in Task : sessions[i] = s => i = RealId(s) /\ key[s] = i

\* An id is forwarded to the one reported by a task that had it.
ForwardsToReal ==
    \A i \in Id : temp_to_real[i] # None =>
        \E r \in Task : temp_to_real[i] = RealId(r) /\ TempId(r) = i /\ key[r] = RealId(r)

KeyIsOwn == \A t \in Task : key[t] \in {None, TempId(t), RealId(t)}
KeyIsTemp == \A t \in Task : pc[t] \in {"spawning", "registering"} => key[t] = TempId(t)
KeyIsSet ==
    \A t \in Task : pc[t] \in {"reading", "killing", "draining", "removing", "stopping"} => key[t] # None

SlotIsOwn ==
    \A t \in Task : pc[t] \in {"spawning", "reading", "registering"} =>
                        pending_sessions[TempId(t)] \in {t, None}

MapInv ==
    /\ PendingUnderKey /\ SessionUnderKey /\ ForwardsToReal
    /\ KeyIsOwn /\ KeyIsTemp /\ KeyIsSet /\ SlotIsOwn

(* What a /stop without a reply leaves behind. *)

\* Nothing in the manager answers to the id of t.
NewFor(t) ==
    /\ pending_sessions[TempId(t)] = None
    /\ \A r \in Task : temp_to_real[TempId(t)] = RealId(r) => sessions[RealId(r)] = None

\* A task that waits to create its session will find none, or stop_all empties
\* the manager before its turn comes.
NewOrBehind == \A t \in Task : pc[t] = "creating" => Before(lock, Stopper, t) \/ NewFor(t)
KnownIsLive == stop_all = "idle" => \A s \in Known : s \notin freed /\ pc[s] # "ended"
StoppingIsUnknown == \A s \in Task : pc[s] = "stopping" => s \notin Known
StoppedOrBehind ==
    stop_all # "idle" /\ ~shut_down =>
        \A t \in Task : Active(t) => cancelled[t] \/ (pc[t] = "creating" /\ Before(lock, Stopper, t))

NewInv == NewOrBehind /\ KnownIsLive /\ StoppingIsUnknown /\ StoppedOrBehind

(* The processes. *)

\* Another task took the session of t out of the manager.
Taken(t) == \E s \in Task \ {t} : removed[s] = t

RunningIsKeyed ==
    \A t \in Task : process[t] = "running" =>
        pc[t] \notin {"idle", "creating", "spawning", "killing", "draining"} /\ key[t] # None
NoneYet == \A t \in Task : pc[t] \in {"idle", "creating", "spawning"} => process[t] = "none"

\* A process that runs on after its generator is one the manager can still stop.
RunningIsKnown ==
    \A t \in Task : process[t] = "running" /\ pc[t] \notin {"reading", "registering"} =>
                        t \in Known \/ Taken(t)
SlotIsKept ==
    \A t \in Task : pc[t] \in {"spawning", "reading", "registering"} /\ key[t] = TempId(t) /\ ~shut_down =>
                        pending_sessions[TempId(t)] = t \/ Taken(t)
WillBeStopped ==
    stop_all = "stopping" =>
        \A s \in Known : s \in to_stop \/ process[s] # "running" \/ pc[s] \in {"reading", "registering"}
KilledIsShielded == \A t \in Task : pc[t] \in {"killing", "draining"} => t \in shielded

ProcInv ==
    /\ RunningIsKeyed /\ NoneYet /\ RunningIsKnown /\ SlotIsKept
    /\ WillBeStopped /\ KilledIsShielded /\ TrackedOrStopped

Inv == TypeOK /\ LockInv /\ CancelInv /\ MapInv /\ NewInv /\ ProcInv

-----------------------------------------------------------------------------
\* The ids of sessions: the reported ones belong to one task each, a temporary
\* one to one task or to the replies to one message.
LEMMA Ids ==
    ASSUME TypeOK
    PROVE  /\ None \notin Id
           /\ \A t \in Task : TempId(t) \in Id /\ RealId(t) \in Id
           /\ \A s, t \in Task : RealId(s) # TempId(t)
           /\ \A s, t \in Task : RealId(s) = RealId(t) => s = t
           /\ \A s, t \in Task : TempId(s) = TempId(t) /\ s # t =>
                  parent[s] = parent[t] /\ parent[s] # NoParent
<1>1. None \notin Id
  BY DEF None, Id
<1>2. ASSUME NEW t \in Task PROVE TempId(t) \in Id /\ RealId(t) \in Id
  BY DEF TypeOK, TempId, RealId, Id
<1>3. ASSUME NEW s \in Task, NEW t \in Task
      PROVE  /\ RealId(s) # TempId(t)
             /\ RealId(s) = RealId(t) => s = t
             /\ TempId(s) = TempId(t) /\ s # t => parent[s] = parent[t] /\ parent[s] # NoParent
  BY DEF TempId, RealId
<1> QED
  BY <1>1, <1>2, <1>3

\* The lock belongs to those who wait for it and to stop_all.
LEMMA LockFacts ==
    ASSUME TypeOK
    PROVE  /\ lock \in Seq(Task \cup {Stopper}) /\ IsInjective(lock)
           /\ Stopper \notin Task /\ None \notin Task
  BY CliAssumption DEF TypeOK

\* Cancellation keeps the lock's order and lets go of those who were cancelled.
LEMMA CancelsLock ==
    ASSUME NEW q \in Seq(Task \cup {Stopper}), IsInjective(q), NEW ts \in SUBSET Task, Cancel(ts, q)
    PROVE  /\ lock' \in Seq(Task \cup {Stopper}) /\ IsInjective(lock')
           /\ ToSet(lock') = ToSet(q) \ {t \in ts : Waits(t)}
           /\ q # <<>> /\ Head(q) \notin {t \in ts : Waits(t)} => lock' # <<>> /\ Head(lock') = Head(q)
           /\ \A x, y : Before(q, x, y) /\ x \notin ts /\ ~(y \in ts /\ Waits(y)) => Before(lock', x, y)
<1>1. PICK S : S = {t \in ts : Waits(t)}
  OBVIOUS
<1>2. lock' = Remaining(q, S)
  BY <1>1 DEF Cancel
<1>3. ASSUME NEW x, NEW y, Before(q, x, y), x \notin ts, ~(y \in ts /\ Waits(y)) PROVE Before(lock', x, y)
  <2>1. x \notin S /\ y \notin S
    BY <1>1, <1>3
  <2> QED
    BY <1>2, <1>3, <2>1, BeforeRemaining
<1>4. /\ lock' \in Seq(Task \cup {Stopper}) /\ IsInjective(lock')
      /\ ToSet(lock') = ToSet(q) \ S
      /\ q # <<>> /\ Head(q) \notin S => lock' # <<>> /\ Head(lock') = Head(q)
  BY <1>2, QueueRemaining
<1> QED
  BY <1>1, <1>3, <1>4

\* Where a cancelled task goes.
LEMMA InterruptedAt ==
    ASSUME TypeOK, NEW t \in Task
    PROVE  /\ Interrupted(t) \in Location /\ (Interrupted(t) = "idle" <=> pc[t] = "idle")
           /\ Active(t) => Interrupted(t) \in {"killing", "draining", "cleaning", "ended"}
           /\ Interrupted(t) = "killing" <=> pc[t] = "reading"
           /\ Interrupted(t) = "draining" <=> pc[t] = "killing"
           /\ pc[t] \in {"removing", "stopping", "ended"} <=> Interrupted(t) = "ended"
  BY DEF TypeOK, Location, Interrupted, Active

-----------------------------------------------------------------------------
\* The state keeps its type: nobody joins the line for the lock twice.
LEMMA TypeKept ==
    ASSUME TypeOK, LockInv, KeyIsSet, [Next]_vars
    PROVE  TypeOK'
<1> USE LockFacts, Ids
<1> USE DEF mapVars, stopMarks, taskVars, stopVars
<1>1. CASE UNCHANGED vars
  BY <1>1 DEF TypeOK, vars
<1>2. ASSUME NEW t \in Task, NEW p \in Parent \cup {NoParent}, Begin(t, p) PROVE TypeOK'
  <2>1. lock' \in Seq(Task \cup {Stopper}) /\ IsInjective(lock')
    BY <1>2, QueueAppend DEF Begin, LockInv, InLine, Waits
  <2> QED
    BY <1>2, <2>1 DEF Begin, TypeOK, Location
<1>3. ASSUME NEW t \in Task, GetOrCreate(t) PROVE TypeOK'
  <2>1. lock' \in Seq(Task \cup {Stopper}) /\ IsInjective(lock')
    BY <1>3, QueueTail DEF GetOrCreate, Holds
  <2> QED
    BY <1>3, <2>1 DEF GetOrCreate, TypeOK, Location
<1>4. ASSUME NEW t \in Task, Spawn(t) \/ SpawnFail(t) \/ GeneratorEnds(t) PROVE TypeOK'
  BY <1>4 DEF Spawn, SpawnFail, GeneratorEnds, TypeOK, Location
<1>5. ASSUME NEW t \in Task, SessionInfo(t) PROVE TypeOK'
  <2>1. lock' \in Seq(Task \cup {Stopper}) /\ IsInjective(lock')
    BY <1>5, QueueAppend DEF SessionInfo, LockInv, InLine, Waits
  <2> QED
    BY <1>5, <2>1 DEF SessionInfo, TypeOK, Location
<1>6. ASSUME NEW t \in Task, Register(t) PROVE TypeOK'
  <2>1. lock' \in Seq(Task \cup {Stopper}) /\ IsInjective(lock')
    BY <1>6, QueueTail DEF Register, Holds
  <2>2. pending_sessions' \in [Id -> Task \cup {None}]
    BY <1>6 DEF Register, TypeOK
  <2>3. sessions' \in [Id -> Task \cup {None}]
    <3>1. pending_sessions[TempId(t)] \in Task \cup {None}
      BY DEF TypeOK, TempId, Id
    <3> QED
      BY <1>6, <3>1 DEF Register, TypeOK
  <2>4. temp_to_real' \in [Id -> Id \cup {None}]
    <3>1. RealId(t) \in Id
      BY DEF RealId, Id
    <3> QED
      BY <1>6, <3>1 DEF Register, TypeOK
  <2> QED
    BY <1>6, <2>1, <2>2, <2>3, <2>4 DEF Register, TypeOK, Location
<1>7. ASSUME NEW t \in Task, Clean(t) PROVE TypeOK'
  <2>1. lock' \in Seq(Task \cup {Stopper}) /\ IsInjective(lock')
    BY <1>7, QueueAppend DEF Clean, LockInv, InLine, Waits
  <2> QED
    BY <1>7, <2>1 DEF Clean, TypeOK, Location
<1>8. ASSUME NEW t \in Task, RemoveSession(t) PROVE TypeOK'
  <2>1. key[t] \in Id
    BY <1>8 DEF RemoveSession, KeyIsSet, TypeOK
  <2>2. Found(t) \in Task \cup {None}
    BY <2>1 DEF TypeOK, Found
  <2> QED
    BY <1>8, <2>1, <2>2 DEF RemoveSession, Signal, TypeOK, Location
<1>9. ASSUME NEW t \in Task, RemoveDone(t) PROVE TypeOK'
  <2>1. lock' \in Seq(Task \cup {Stopper}) /\ IsInjective(lock')
    BY <1>9, QueueTail DEF RemoveDone, LockInv, StoppingHolds, Holds
  <2> QED
    BY <1>9, <2>1 DEF RemoveDone, TypeOK, Location
<1>10. ASSUME NEW t \in Task, Stop(t) PROVE TypeOK'
  <2>1. lock' \in Seq(Task \cup {Stopper}) /\ IsInjective(lock')
    BY <1>10, CancelsLock DEF Stop
  <2> QED
    BY <1>10, <2>1, InterruptedAt DEF Stop, Cancel, Signal, TypeOK
<1>11. CASE StopAll
  <2>1. PICK q : q = Append(lock, Stopper)
    OBVIOUS
  <2>2. q \in Seq(Task \cup {Stopper}) /\ IsInjective(q)
    BY <1>11, <2>1, QueueAppend DEF StopAll, LockInv, StopperInLine
  <2>3. PICK ts \in SUBSET Task : ts = {t \in current : Active(t)}
    BY DEF TypeOK
  <2>4. Cancel(ts, q)
    BY <1>11, <2>1, <2>3 DEF StopAll
  <2>5. lock' \in Seq(Task \cup {Stopper}) /\ IsInjective(lock')
    BY <2>2, <2>4, CancelsLock
  <2> QED
    BY <1>11, <2>4, <2>5, InterruptedAt, CliAssumption DEF StopAll, Cancel, Signal, TypeOK
<1>12. CASE Shutdown
  <2>1. lock' \in Seq(Task \cup {Stopper}) /\ IsInjective(lock')
    BY <1>12, QueueAppend DEF Shutdown, LockInv, StopperInLine
  <2> QED
    BY <1>12, <2>1 DEF Shutdown, TypeOK
<1>13. CASE StopAllTake \/ StopAllStopped
  BY <1>13 DEF StopAllTake, StopAllStopped, TypeOK, Known
<1>14. ASSUME NEW s \in Task, StopAllSignal(s) PROVE TypeOK'
  BY <1>14 DEF StopAllSignal, Signal, TypeOK
<1>15. CASE StopAllEnd
  <2>1. lock' \in Seq(Task \cup {Stopper}) /\ IsInjective(lock')
    BY <1>15, QueueTail DEF StopAllEnd, LockInv, StopAllHolds, Holds
  <2> QED
    BY <1>15, <2>1 DEF StopAllEnd, TypeOK
<1>16. ASSUME NEW t \in Task, Exit(t) \/ Closed(t) PROVE TypeOK'
  BY <1>16 DEF Exit, Closed, TypeOK
<1> QED
  BY <1>1, <1>2, <1>3, <1>4, <1>5, <1>6, <1>7, <1>8, <1>9, <1>10, <1>11, <1>12, <1>13, <1>14, <1>15, <1>16
  DEF Next, InTurn, Turn, TaskStep, World, StopAllStep

-----------------------------------------------------------------------------
\* Who joins the line for the lock changes nobody's turn; who has had the lock
\* leaves it to the next.
LEMMA Joins ==
    ASSUME TypeOK, NEW z \in Task \cup {Stopper}, lock' = Append(lock, z)
    PROVE  /\ ToSet(lock') = ToSet(lock) \cup {z}
           /\ \A x : Holds(x) => Holds(x)'
  BY LockFacts, QueueAppend DEF Holds

LEMMA Leaves ==
    ASSUME TypeOK, NEW z, Holds(z), lock' = Tail(lock)
    PROVE  ToSet(lock') = ToSet(lock) \ {z}
  BY LockFacts, QueueTail DEF Holds

\* Who waits for the lock is in line for it, and who stops a session holds it.
LEMMA LockKept ==
    ASSUME TypeOK, LockInv, [Next]_vars
    PROVE  LockInv'
<1> USE LockFacts
<1> USE DEF mapVars, stopMarks, taskVars, stopVars, LockInv, InLine, StopperInLine, StoppingHolds, StopAllHolds
<1>1. CASE UNCHANGED vars
  BY <1>1 DEF vars, Waits, Holds
<1>2. ASSUME NEW t \in Task, NEW p \in Parent \cup {NoParent}, Begin(t, p) PROVE LockInv'
  BY <1>2, Joins DEF Begin, TypeOK, Waits
<1>3. ASSUME NEW t \in Task, GetOrCreate(t) PROVE LockInv'
  <2>1. Holds(t) /\ ToSet(lock') = ToSet(lock) \ {t}
    BY <1>3, Leaves DEF GetOrCreate
  <2> QED
    BY <1>3, <2>1 DEF GetOrCreate, TypeOK, Waits, Holds
<1>4. ASSUME NEW t \in Task, Spawn(t) \/ SpawnFail(t) \/ GeneratorEnds(t) PROVE LockInv'
  BY <1>4 DEF Spawn, SpawnFail, GeneratorEnds, TypeOK, Waits, Holds
<1>5. ASSUME NEW t \in Task, SessionInfo(t) PROVE LockInv'
  BY <1>5, Joins DEF SessionInfo, TypeOK, Waits
<1>6. ASSUME NEW t \in Task, Register(t) PROVE LockInv'
  <2>1. Holds(t) /\ ToSet(lock') = ToSet(lock) \ {t}
    BY <1>6, Leaves DEF Register
  <2> QED
    BY <1>6, <2>1 DEF Register, TypeOK, Waits, Holds
<1>7. ASSUME NEW t \in Task, Clean(t) PROVE LockInv'
  <2>1. CASE key[t] = None
    BY <1>7, <2>1 DEF Clean, TypeOK, Waits, Holds
  <2>2. CASE key[t] # None
    BY <1>7, <2>2, Joins DEF Clean, TypeOK, Waits
  <2> QED
    BY <2>1, <2>2
<1>8. ASSUME NEW t \in Task, RemoveSession(t) PROVE LockInv'
  BY <1>8 DEF RemoveSession, TypeOK, Waits, Holds
<1>9. ASSUME NEW t \in Task, RemoveDone(t) PROVE LockInv'
  <2>1. Holds(t) /\ ToSet(lock') = ToSet(lock) \ {t}
    BY <1>9, Leaves DEF RemoveDone
  <2> QED
    BY <1>9, <2>1 DEF RemoveDone, TypeOK, Waits, Holds
<1>10. ASSUME NEW t \in Task, Stop(t) PROVE LockInv'
  <2>1. /\ Waits(t)' = FALSE /\ pc'[t] # "stopping"
        /\ \A s \in Task \ {t} : pc'[s] = pc[s]
    BY <1>10, InterruptedAt DEF Stop, Cancel, Waits, TypeOK, Active
  <2>2. \A s \in Task : pc[s] = "stopping" => Holds(s) /\ s # t
    BY <1>10 DEF Stop
  <2>3. /\ ToSet(lock') = ToSet(lock) \ {s \in {t} : Waits(s)}
        /\ \A x : Holds(x) /\ x # t => Holds(x)'
    BY <1>10, CancelsLock DEF Stop, Holds
  <2> QED
    BY <1>10, <2>1, <2>2, <2>3 DEF Stop, TypeOK, Waits
<1>11. CASE StopAll
  <2>1. PICK q : q = Append(lock, Stopper)
    OBVIOUS
  <2>2. /\ q \in Seq(Task \cup {Stopper}) /\ IsInjective(q)
        /\ ToSet(q) = ToSet(lock) \cup {Stopper}
        /\ \A x : Holds(x) => q # <<>> /\ Head(q) = x
    BY <1>11, <2>1, QueueAppend DEF StopAll, Holds
  <2>3. PICK ts \in SUBSET Task : ts = {t \in current : Active(t)}
    BY DEF TypeOK
  <2>4. Cancel(ts, q)
    BY <1>11, <2>1, <2>3 DEF StopAll
  <2>5. /\ ToSet(lock') = ToSet(q) \ {t \in ts : Waits(t)}
        /\ q # <<>> /\ Head(q) \notin {t \in ts : Waits(t)} => lock' # <<>> /\ Head(lock') = Head(q)
    BY <2>2, <2>4, CancelsLock
  <2>6. \A t \in Task : IF t \in ts THEN ~Waits(t)' ELSE pc'[t] = pc[t]
    BY <2>3, <2>4, InterruptedAt DEF Cancel, Waits
  <2>7. InLine' /\ StopperInLine'
    BY <1>11, <2>2, <2>5, <2>6 DEF StopAll, Waits
  <2>8. StoppingHolds'
    BY <2>2, <2>5, <2>6 DEF Waits, Holds
  <2> QED
    BY <1>11, <2>7, <2>8 DEF StopAll
<1>12. CASE Shutdown
  BY <1>12, Joins DEF Shutdown, Waits
<1>13. CASE StopAllTake \/ StopAllStopped
  BY <1>13 DEF StopAllTake, StopAllStopped, Waits, Holds
<1>14. ASSUME NEW s \in Task, StopAllSignal(s) PROVE LockInv'
  BY <1>14 DEF StopAllSignal, Waits, Holds
<1>15. CASE StopAllEnd
  <2>1. Holds(Stopper) /\ ToSet(lock') = ToSet(lock) \ {Stopper}
    BY <1>15, Leaves DEF StopAllEnd
  <2> QED
    BY <1>15, <2>1 DEF StopAllEnd, Waits, Holds
<1>16. ASSUME NEW t \in Task, Exit(t) \/ Closed(t) PROVE LockInv'
  BY <1>16 DEF Exit, Closed, Waits, Holds
<1> QED
  BY <1>1, <1>2, <1>3, <1>4, <1>5, <1>6, <1>7, <1>8, <1>9, <1>10, <1>11, <1>12, <1>13, <1>14, <1>15, <1>16
  DEF Next, InTurn, Turn, TaskStep, World, StopAllStep

-----------------------------------------------------------------------------
\* A task is cancelled only on its way to the end, a conversation is freed only
\* with its task cancelled, and the next reply starts only after that.
LEMMA CancelKept ==
    ASSUME TypeOK, CancelInv, [Next]_vars
    PROVE  CancelInv'
<1> USE DEF mapVars, stopMarks, taskVars, stopVars, Late, Over
<1>1. CASE UNCHANGED vars
  BY <1>1 DEF vars, CancelInv, CancelledIsLate, FreedIsCancelled, ActiveIsCurrent, Active,
              OneReplyRuns, NoKeyYet, NothingRemovedYet
<1>2. ASSUME NEW t \in Task, NEW p \in Parent \cup {NoParent}, Begin(t, p) PROVE CancelInv'
  <2>1. CancelledIsLate' /\ FreedIsCancelled' /\ NoKeyYet' /\ NothingRemovedYet'
    BY <1>2 DEF Begin, TypeOK, CancelInv, CancelledIsLate, FreedIsCancelled, NoKeyYet, NothingRemovedYet
  <2>2. ActiveIsCurrent'
    BY <1>2 DEF Begin, TypeOK, CancelInv, ActiveIsCurrent, FreedIsCancelled, Active
  <2>3. OneReplyRuns'
    BY <1>2 DEF Begin, TypeOK, CancelInv, OneReplyRuns, FreedIsCancelled
  <2> QED
    BY <2>1, <2>2, <2>3 DEF CancelInv
<1>3. ASSUME NEW t \in Task,
             \/ GetOrCreate(t) \/ Spawn(t) \/ SpawnFail(t) \/ GeneratorEnds(t) \/ SessionInfo(t)
             \/ Register(t) \/ Clean(t) \/ RemoveSession(t) \/ RemoveDone(t)
      PROVE  CancelInv'
  <2>1. /\ pc[t] \notin {"idle", "ended"} /\ pc'[t] \notin {"idle", "creating"}
        /\ pc[t] \in Late => pc'[t] \in Late
        /\ pc[t] \in {"stopping", "ended"} => pc'[t] \in {"stopping", "ended"}
        /\ pc'[t] \notin {"stopping", "ended"} => removed'[t] = removed[t]
        /\ \A s \in Task \ {t} : pc'[s] = pc[s] /\ key'[s] = key[s] /\ removed'[s] = removed[s]
        /\ UNCHANGED <<parent, cancelled, current, freed>>
    BY <1>3 DEF GetOrCreate, Spawn, SpawnFail, GeneratorEnds, SessionInfo, Register, Clean,
                RemoveSession, RemoveDone, TypeOK
  <2>2. CancelledIsLate' /\ FreedIsCancelled' /\ ActiveIsCurrent'
    BY <2>1 DEF CancelInv, CancelledIsLate, FreedIsCancelled, ActiveIsCurrent, Active
  <2>3. OneReplyRuns' /\ NoKeyYet' /\ NothingRemovedYet'
    BY <2>1 DEF CancelInv, OneReplyRuns, NoKeyYet, NothingRemovedYet
  <2> QED
    BY <2>2, <2>3 DEF CancelInv
<1>4. ASSUME NEW q, NEW ts \in SUBSET Task, Cancel(ts, q), \A t \in ts : Active(t),
             UNCHANGED <<parent, current, key, removed>>,
             freed' \subseteq freed \cup ts \cup {t \in Task : cancelled[t]}
      PROVE  CancelInv'
  <2>1. /\ \A t \in Task : pc[t] = "idle" <=> pc'[t] = "idle"
        /\ \A t \in Task : pc[t] = "ended" => pc'[t] = "ended"
        /\ \A t \in Task : cancelled'[t] = (cancelled[t] \/ t \in ts)
        /\ \A t \in ts : pc'[t] \in Late
        /\ \A t \in Task \ ts : pc'[t] = pc[t]
        /\ \A t \in Task : pc[t] \in {"stopping", "ended"} => pc'[t] \in {"stopping", "ended"}
    BY <1>4, InterruptedAt DEF Cancel, Active
  <2>2. CancelledIsLate' /\ FreedIsCancelled' /\ ActiveIsCurrent'
    BY <1>4, <2>1 DEF CancelInv, CancelledIsLate, FreedIsCancelled, ActiveIsCurrent, Active, TypeOK
  <2>3. OneReplyRuns' /\ NoKeyYet' /\ NothingRemovedYet'
    BY <1>4, <2>1 DEF CancelInv, OneReplyRuns, NoKeyYet, NothingRemovedYet
  <2> QED
    BY <2>2, <2>3 DEF CancelInv
<1>5. ASSUME NEW t \in Task, Stop(t) PROVE CancelInv'
  BY <1>4, <1>5 DEF Stop, Active
<1>6. CASE StopAll
  <2>1. PICK ts \in SUBSET Task : ts = {t \in current : Active(t)}
    BY DEF TypeOK
  <2>2. Cancel(ts, Append(lock, Stopper))
    BY <1>6, <2>1 DEF StopAll
  <2> QED
    BY <1>4, <1>6, <2>1, <2>2 DEF StopAll, CancelInv, ActiveIsCurrent
<1>7. CASE \/ Shutdown \/ StopAllTake \/ StopAllStopped \/ StopAllEnd
           \/ \E t \in Task : StopAllSignal(t) \/ Exit(t) \/ Closed(t)
  <2>1. UNCHANGED taskVars
    BY <1>7 DEF Shutdown, StopAllTake, StopAllStopped, StopAllEnd, StopAllSignal, Exit, Closed
  <2> QED
    BY <2>1 DEF CancelInv, CancelledIsLate, FreedIsCancelled, ActiveIsCurrent, Active,
                OneReplyRuns, NoKeyYet, NothingRemovedYet
<1> QED
  BY <1>1, <1>2, <1>3, <1>5, <1>6, <1>7
  DEF Next, InTurn, Turn, TaskStep, World, StopAllStep

-----------------------------------------------------------------------------
\* Sessions sit under the ids of their own tasks, and only those.
LEMMA MapKept ==
    ASSUME TypeOK, CancelInv, MapInv, [Next]_vars
    PROVE  MapInv'
<1> USE Ids, LockFacts
<1> USE DEF mapVars, stopMarks, taskVars, stopVars
<1>1. ASSUME UNCHANGED <<parent, key>>,
             \A i \in Id : /\ pending_sessions'[i] \in {pending_sessions[i], None}
                          /\ sessions'[i] \in {sessions[i], None}
                          /\ temp_to_real'[i] \in {temp_to_real[i], None},
             \A s \in Task : pc'[s] \in {"spawning", "reading", "registering"} =>
                               pc[s] \in {"spawning", "reading", "registering"},
             KeyIsTemp', KeyIsSet'
      PROVE  MapInv'
  <2>1. \A s \in Task : TempId(s)' = TempId(s) /\ RealId(s)' = RealId(s)
    BY <1>1 DEF TempId, RealId
  <2>2. PendingUnderKey' /\ SessionUnderKey' /\ ForwardsToReal'
    BY <1>1, <2>1 DEF MapInv, PendingUnderKey, SessionUnderKey, ForwardsToReal
  <2>3. KeyIsOwn' /\ SlotIsOwn'
    BY <1>1, <2>1 DEF MapInv, KeyIsOwn, SlotIsOwn
  <2> QED
    BY <1>1, <2>2, <2>3 DEF MapInv
<1>2. CASE UNCHANGED vars
  BY <1>1, <1>2 DEF vars, MapInv, KeyIsTemp, KeyIsSet, TempId
<1>3. ASSUME NEW t \in Task, NEW p \in Parent \cup {NoParent}, Begin(t, p) PROVE MapInv'
  <2>1. /\ \A s \in Task \ {t} : TempId(s)' = TempId(s) /\ pc'[s] = pc[s]
        /\ \A s \in Task : RealId(s)' = RealId(s)
        /\ key[t] = None /\ pc'[t] = "creating"
        /\ UNCHANGED <<pending_sessions, sessions, temp_to_real, key>>
    BY <1>3 DEF Begin, TempId, RealId, TypeOK, CancelInv, NoKeyYet
  <2>2. PendingUnderKey' /\ SessionUnderKey' /\ ForwardsToReal'
    BY <2>1 DEF MapInv, PendingUnderKey, SessionUnderKey, ForwardsToReal
  <2>3. KeyIsOwn' /\ KeyIsTemp' /\ KeyIsSet' /\ SlotIsOwn'
    BY <2>1 DEF MapInv, KeyIsOwn, KeyIsTemp, KeyIsSet, SlotIsOwn
  <2> QED
    BY <2>2, <2>3 DEF MapInv
<1>4. ASSUME NEW t \in Task, GetOrCreate(t) PROVE MapInv'
  <2>1. /\ \A s \in Task : TempId(s)' = TempId(s) /\ RealId(s)' = RealId(s)
        /\ \A s \in Task \ {t} : pc'[s] = pc[s] /\ key'[s] = key[s]
        /\ \A i \in Id \ {TempId(t)} : pending_sessions'[i] = pending_sessions[i]
        /\ pending_sessions'[TempId(t)] = t
        /\ key[t] = None /\ key'[t] = TempId(t) /\ pc'[t] = "spawning"
        /\ UNCHANGED <<sessions, temp_to_real>>
    BY <1>4 DEF GetOrCreate, TempId, RealId, TypeOK, CancelInv, NoKeyYet
  <2>2. PendingUnderKey' /\ SessionUnderKey'
    BY <2>1 DEF MapInv, PendingUnderKey, SessionUnderKey
  <2>3. ForwardsToReal'
    BY <2>1 DEF MapInv, ForwardsToReal
  <2>4. KeyIsOwn' /\ KeyIsTemp' /\ KeyIsSet'
    BY <2>1 DEF MapInv, KeyIsOwn, KeyIsTemp, KeyIsSet
  <2>5. ASSUME NEW s \in Task \ {t}, pc[s] \in {"spawning", "reading", "registering"}
        PROVE  TempId(s) # TempId(t)
    BY <1>4, <2>5 DEF GetOrCreate, CancelInv, CancelledIsLate, OneReplyRuns, Over, Late
  <2>6. SlotIsOwn'
    BY <2>1, <2>5 DEF MapInv, SlotIsOwn
  <2> QED
    BY <2>2, <2>3, <2>4, <2>6 DEF MapInv
<1>5. ASSUME NEW t \in Task,
             Spawn(t) \/ SpawnFail(t) \/ GeneratorEnds(t) \/ SessionInfo(t) \/ Clean(t)
      PROVE  MapInv'
  <2>1. /\ UNCHANGED <<parent, key, pending_sessions, sessions, temp_to_real>>
        /\ \A s \in Task \ {t} : pc'[s] = pc[s]
        /\ \/ pc[t] = "spawning" /\ pc'[t] = "reading"
           \/ pc'[t] \in {"cleaning", "ended"}
           \/ pc[t] = "reading" /\ key[t] = TempId(t) /\ pc'[t] = "registering"
           \/ pc'[t] = "removing" /\ key[t] # None
    BY <1>5 DEF Spawn, SpawnFail, GeneratorEnds, SessionInfo, Clean, TypeOK
  <2>2. KeyIsTemp' /\ KeyIsSet'
    BY <2>1 DEF MapInv, KeyIsTemp, KeyIsSet, TempId
  <2> QED
    BY <1>1, <2>1, <2>2
<1>6. ASSUME NEW t \in Task, Register(t) PROVE MapInv'
  <2>1. /\ \A s \in Task : TempId(s)' = TempId(s) /\ RealId(s)' = RealId(s)
        /\ \A s \in Task \ {t} : pc'[s] = pc[s] /\ key'[s] = key[s]
        /\ key[t] = TempId(t) /\ key'[t] = RealId(t) /\ pc[t] = "registering" /\ pc'[t] = "reading"
        /\ pending_sessions[TempId(t)] \in {t, None}
    BY <1>6 DEF Register, TempId, RealId, TypeOK, MapInv, KeyIsTemp, SlotIsOwn
  <2>2. /\ \A i \in Id \ {TempId(t)} : pending_sessions'[i] = pending_sessions[i]
        /\ pending_sessions'[TempId(t)] = None
        /\ \A i \in Id \ {RealId(t)} : sessions'[i] = sessions[i]
        /\ sessions'[RealId(t)] \in {sessions[RealId(t)], t}
        /\ \A i \in Id \ {TempId(t)} : temp_to_real'[i] = temp_to_real[i]
        /\ temp_to_real'[TempId(t)] \in {temp_to_real[TempId(t)], RealId(t)}
    BY <1>6, <2>1 DEF Register, TypeOK
  <2>3. PendingUnderKey'
    BY <2>1, <2>2 DEF MapInv, PendingUnderKey
  <2>4. SessionUnderKey'
    BY <2>1, <2>2 DEF MapInv, SessionUnderKey
  <2>5. ForwardsToReal'
    BY <2>1, <2>2 DEF MapInv, ForwardsToReal
  <2>6. KeyIsOwn' /\ KeyIsTemp' /\ KeyIsSet' /\ SlotIsOwn'
    BY <2>1, <2>2 DEF MapInv, KeyIsOwn, KeyIsTemp, KeyIsSet, SlotIsOwn
  <2> QED
    BY <2>3, <2>4, <2>5, <2>6 DEF MapInv
<1>7. ASSUME NEW t \in Task, RemoveSession(t) \/ RemoveDone(t) PROVE MapInv'
  <2>1. /\ \A s \in Task \ {t} : pc'[s] = pc[s]
        /\ (pc[t] = "removing" /\ pc'[t] = "stopping") \/ pc'[t] = "ended"
        /\ UNCHANGED <<parent, key>>
    BY <1>7 DEF RemoveSession, RemoveDone, TypeOK
  <2>2. KeyIsTemp' /\ KeyIsSet'
    BY <2>1 DEF MapInv, KeyIsTemp, KeyIsSet, TempId
  <2>3. \A i \in Id : /\ pending_sessions'[i] \in {pending_sessions[i], None}
                      /\ sessions'[i] \in {sessions[i], None}
                      /\ temp_to_real'[i] \in {temp_to_real[i], None}
    BY <1>7 DEF RemoveSession, RemoveDone, TypeOK
  <2> QED
    BY <1>1, <2>1, <2>2, <2>3
<1>8. ASSUME NEW q, NEW ts \in SUBSET Task, Cancel(ts, q), \A t \in ts : Active(t),
             UNCHANGED <<mapVars, parent, key>>
      PROVE  MapInv'
  <2>1. /\ \A s \in ts : /\ pc'[s] \in {"killing", "draining", "cleaning", "ended"}
                         /\ pc'[s] = "killing" => pc[s] = "reading"
                         /\ pc'[s] = "draining" => pc[s] = "killing"
        /\ \A s \in Task \ ts : pc'[s] = pc[s]
    BY <1>8, InterruptedAt DEF Cancel
  <2>2. KeyIsTemp' /\ KeyIsSet'
    BY <1>8, <2>1 DEF MapInv, KeyIsTemp, KeyIsSet, TempId
  <2> QED
    BY <1>1, <1>8, <2>1, <2>2
<1>9. ASSUME NEW t \in Task, Stop(t) PROVE MapInv'
  BY <1>8, <1>9 DEF Stop, Active
<1>10. CASE StopAll
  <2>1. PICK ts \in SUBSET Task : ts = {t \in current : Active(t)}
    BY DEF TypeOK
  <2>2. Cancel(ts, Append(lock, Stopper))
    BY <1>10, <2>1 DEF StopAll
  <2> QED
    BY <1>8, <1>10, <2>1, <2>2 DEF StopAll
<1>11. CASE \/ Shutdown \/ StopAllTake \/ StopAllStopped \/ StopAllEnd
            \/ \E t \in Task : StopAllSignal(t) \/ Exit(t) \/ Closed(t)
  <2>1. /\ UNCHANGED taskVars
        /\ \A i \in Id : /\ pending_sessions'[i] \in {pending_sessions[i], None}
                         /\ sessions'[i] \in {sessions[i], None}
                         /\ temp_to_real'[i] \in {temp_to_real[i], None}
    BY <1>11 DEF Shutdown, StopAllTake, StopAllStopped, StopAllEnd, StopAllSignal, Exit, Closed
  <2>2. KeyIsTemp' /\ KeyIsSet'
    BY <2>1 DEF MapInv, KeyIsTemp, KeyIsSet, TempId
  <2> QED
    BY <1>1, <2>1, <2>2
<1> QED
  BY <1>2, <1>3, <1>4, <1>5, <1>6, <1>7, <1>9, <1>10, <1>11
  DEF Next, InTurn, Turn, TaskStep, World, StopAllStep

-----------------------------------------------------------------------------
\* The manager knows a session by its temporary id or by its reported id.
KnownById ==
    \A s \in Task : s \in Known <=> pending_sessions[TempId(s)] = s \/ sessions[RealId(s)] = s

LEMMA Knows == TypeOK /\ MapInv => KnownById
  BY Ids DEF MapInv, PendingUnderKey, SessionUnderKey, KnownById, Known

LEMMA KnownHasKey ==
    ASSUME TypeOK, MapInv, NEW s \in Known
    PROVE  s \in Task /\ key[s] # None
  BY Ids DEF MapInv, PendingUnderKey, SessionUnderKey, Known

\* Whoever is behind stop_all in the line stays there while stop_all waits.
LEMMA StaysBehind ==
    ASSUME TypeOK,
           \/ lock' = lock
           \/ \E z \in Task \cup {Stopper} : lock' = Append(lock, z)
           \/ \E z \in Task : Holds(z) /\ lock' = Tail(lock)
    PROVE  \A x : Before(lock, Stopper, x) => Before(lock', Stopper, x)
  BY LockFacts, BeforeAppend, BeforeTail DEF Holds

\* Two tasks with the same temporary id are not both on their way.
LEMMA OwnTempId ==
    ASSUME TypeOK, CancelInv, NEW s \in Task, NEW t \in Task, s # t,
           pc[s] \in {"creating", "spawning", "reading", "registering"},
           pc[t] \in {"creating", "spawning", "reading", "registering"}
    PROVE  TempId(s) # TempId(t)
  BY Ids DEF CancelInv, CancelledIsLate, OneReplyRuns, Over, Late

\* A task finds nothing under its id when its turn comes, because what a stopped
\* one left there is gone by then.
LEMMA NewKept ==
    ASSUME TypeOK, LockInv, CancelInv, MapInv, NewInv, [Next]_vars, TypeOK', MapInv'
    PROVE  NewInv'
<1> USE Ids, LockFacts
<1> USE DEF mapVars, stopMarks, taskVars, stopVars
<1>a. KnownById /\ KnownById'
  <2>1. (TypeOK /\ MapInv => KnownById)'
    BY Knows, PTL
  <2> QED
    BY <2>1, Knows
\* Steps that let go of sessions at most, and move tasks that have left the start.
<1>1. ASSUME \A x \in Task : Before(lock, Stopper, x) => Before(lock', Stopper, x),
             UNCHANGED <<parent, freed, cancelled, stop_all, shut_down>>,
             \A i \in Id : /\ pending_sessions'[i] \in {pending_sessions[i], None}
                          /\ sessions'[i] \in {sessions[i], None}
                          /\ temp_to_real'[i] \in {temp_to_real[i], None},
             \A s \in Task : pc'[s] = pc[s] \/ (pc'[s] # "creating" /\ pc[s] \notin {"idle", "creating", "ended"}),
             \A s \in Task : s \in Known' /\ pc'[s] \in {"stopping", "ended"} => pc[s] = pc'[s]
      PROVE  NewInv'
  <2>1. \A s \in Task : TempId(s)' = TempId(s) /\ RealId(s)' = RealId(s)
    BY <1>1 DEF TempId, RealId
  <2>2. \A s \in Task : s \in Known' => s \in Known
    BY <1>1, <1>a, <2>1 DEF KnownById
  <2>3. NewOrBehind'
    <3>1. \A s \in Task : NewFor(s) => NewFor(s)'
      BY <1>1, <2>1 DEF NewFor
    <3> QED
      BY <1>1, <3>1 DEF NewInv, NewOrBehind
  <2>4. KnownIsLive' /\ StoppingIsUnknown'
    BY <1>1, <2>2 DEF NewInv, KnownIsLive, StoppingIsUnknown, Known
  <2>5. StoppedOrBehind'
    BY <1>1 DEF NewInv, StoppedOrBehind, Active
  <2> QED
    BY <2>3, <2>4, <2>5 DEF NewInv
<1>2. CASE UNCHANGED vars
  BY <1>1, <1>2 DEF vars, Known
<1>3. ASSUME NEW t \in Task, NEW p \in Parent \cup {NoParent}, Begin(t, p) PROVE NewInv'
  <2>1. /\ \A s \in Task \ {t} : TempId(s)' = TempId(s) /\ pc'[s] = pc[s] /\ parent'[s] = parent[s]
        /\ \A s \in Task : RealId(s)' = RealId(s)
        /\ parent'[t] = p
        /\ key[t] = None /\ pc[t] = "idle" /\ pc'[t] = "creating"
        /\ UNCHANGED <<pending_sessions, sessions, temp_to_real, key, freed, cancelled, stop_all, shut_down>>
    BY <1>3 DEF Begin, TempId, RealId, TypeOK, CancelInv, NoKeyYet
  <2>2. \A x : Before(lock, Stopper, x) => Before(lock', Stopper, x)
    BY <1>3, StaysBehind DEF Begin
  <2>3. stop_all # "idle" => Before(lock', Stopper, t)
    BY <1>3, BeforeAppend DEF Begin, LockInv, StopperInLine
  <2>4. Known' = Known
    BY <2>1 DEF Known
  <2>5. ASSUME stop_all = "idle", NEW s \in Known PROVE s # t /\ TempId(s) # TempId(t)'
    <3>1. s \in Task /\ key[s] # None /\ s # t
      BY <2>1, <2>5, KnownHasKey
    <3>2. s \notin freed /\ pc[s] # "ended" /\ pc[s] # "idle"
      BY <2>5, <3>1 DEF NewInv, KnownIsLive, CancelInv, NoKeyYet
    <3>3. p = NoParent \/ parent[s] # p
      BY <1>3, <3>1, <3>2 DEF Begin
    <3> QED
      BY <2>1, <3>1, <3>3 DEF TempId
  <2>6. ASSUME stop_all = "idle" PROVE NewFor(t)'
    <3>1. pending_sessions[TempId(t)'] = None
      <4>1. pending_sessions[TempId(t)'] \in Task \cup {None} /\ TempId(t)' \in Id
        BY <1>3, <2>1 DEF TypeOK, TempId, Id
      <4>2. ASSUME NEW s \in Task, pending_sessions[TempId(t)'] = s PROVE FALSE
        BY <2>5, <2>6, <4>1, <4>2 DEF Known, MapInv, PendingUnderKey
      <4> QED
        BY <4>1, <4>2
    <3>2. ASSUME NEW r \in Task, temp_to_real[TempId(t)'] = RealId(r) PROVE sessions[RealId(r)] = None
      <4>1. TempId(t)' \in Id /\ RealId(r) \in Id
        <5>1. RealId(r) \in Id
          BY DEF RealId, Id
        <5>2. TempId(t)' \in Id
          BY <1>3, <2>1 DEF TempId, Id
        <5> QED
          BY <5>1, <5>2
      <4>2. TempId(r) = TempId(t)'
        BY <3>2, <4>1 DEF MapInv, ForwardsToReal
      <4>3. ASSUME NEW s \in Task, sessions[RealId(r)] = s PROVE FALSE
        BY <2>5, <2>6, <4>1, <4>2, <4>3 DEF Known, MapInv, SessionUnderKey
      <4> QED
        BY <4>1, <4>3 DEF TypeOK
    <3> QED
      BY <2>1, <3>1, <3>2 DEF NewFor
  <2>7. NewOrBehind'
    <3>1. \A s \in Task \ {t} : NewFor(s) => NewFor(s)'
      BY <2>1 DEF NewFor
    <3> QED
      BY <2>1, <2>2, <2>3, <2>6, <3>1 DEF NewInv, NewOrBehind
  <2>8. KnownIsLive' /\ StoppingIsUnknown'
    BY <2>1, <2>4 DEF NewInv, KnownIsLive, StoppingIsUnknown, Known
  <2>9. StoppedOrBehind'
    BY <2>1, <2>2, <2>3 DEF NewInv, StoppedOrBehind, Active
  <2> QED
    BY <2>7, <2>8, <2>9 DEF NewInv
<1>4. ASSUME NEW t \in Task, GetOrCreate(t) PROVE NewInv'
  <2>1. /\ \A s \in Task : TempId(s)' = TempId(s) /\ RealId(s)' = RealId(s)
        /\ \A s \in Task \ {t} : pc'[s] = pc[s]
        /\ \A i \in Id \ {TempId(t)} : pending_sessions'[i] = pending_sessions[i]
        /\ pending_sessions'[TempId(t)] = t
        /\ pc[t] = "creating" /\ pc'[t] = "spawning"
        /\ UNCHANGED <<sessions, temp_to_real, freed, cancelled, stop_all, shut_down>>
    BY <1>4 DEF GetOrCreate, TempId, RealId, TypeOK
  <2>2. \A x : Before(lock, Stopper, x) => Before(lock', Stopper, x)
    BY <1>4, StaysBehind DEF GetOrCreate
  <2>3. NewOrBehind'
    <3>1. ASSUME NEW s \in Task \ {t}, pc[s] = "creating", NewFor(s) PROVE NewFor(s)'
      BY <2>1, <3>1, OwnTempId DEF NewFor
    <3> QED
      BY <2>1, <2>2, <3>1 DEF NewInv, NewOrBehind
  <2>4. \A s \in Task : s \in Known' => s \in Known \/ s = t
    BY <1>a, <2>1 DEF KnownById
  <2>5. KnownIsLive' /\ StoppingIsUnknown'
    BY <2>1, <2>4 DEF NewInv, KnownIsLive, StoppingIsUnknown, Known, CancelInv, FreedIsCancelled,
                      CancelledIsLate, Late
  <2>6. stop_all # "idle" => shut_down
    <3>1. ~Before(lock, Stopper, t) /\ ~cancelled[t] /\ Active(t)
      BY <1>4, BeforeHead DEF GetOrCreate, Holds, CancelInv, CancelledIsLate, Late, Active
    <3> QED
      BY <3>1 DEF NewInv, StoppedOrBehind
  <2>7. StoppedOrBehind'
    BY <2>1, <2>6 DEF StoppedOrBehind
  <2> QED
    BY <2>3, <2>5, <2>7 DEF NewInv
<1>5. ASSUME NEW t \in Task,
             Spawn(t) \/ SpawnFail(t) \/ GeneratorEnds(t) \/ SessionInfo(t) \/ Clean(t)
      PROVE  NewInv'
  <2>1. /\ UNCHANGED <<pending_sessions, sessions, temp_to_real, parent, freed, cancelled, stop_all, shut_down>>
        /\ \A s \in Task \ {t} : pc'[s] = pc[s]
        /\ pc[t] \notin {"idle", "creating", "ended"} /\ pc'[t] \notin {"creating", "stopping"}
        /\ pc'[t] = "ended" => key[t] = None
    BY <1>5 DEF Spawn, SpawnFail, GeneratorEnds, SessionInfo, Clean, TypeOK
  <2>2. lock' = lock \/ lock' = Append(lock, t)
    BY <1>5 DEF Spawn, SpawnFail, GeneratorEnds, SessionInfo, Clean
  <2>3. Known' = Known
    BY <2>1 DEF Known
  <2> QED
    BY <1>1, <2>1, <2>2, <2>3, StaysBehind, KnownHasKey
<1>6. ASSUME NEW t \in Task, Register(t) PROVE NewInv'
  <2>1. /\ \A s \in Task : TempId(s)' = TempId(s) /\ RealId(s)' = RealId(s)
        /\ \A s \in Task \ {t} : pc'[s] = pc[s]
        /\ pc[t] = "registering" /\ pc'[t] = "reading"
        /\ pending_sessions[TempId(t)] \in {t, None}
        /\ UNCHANGED <<freed, cancelled, stop_all, shut_down>>
    BY <1>6 DEF Register, TempId, RealId, TypeOK, MapInv, SlotIsOwn
  <2>2. /\ \A i \in Id \ {TempId(t)} : pending_sessions'[i] = pending_sessions[i]
        /\ \A i \in Id \ {RealId(t)} : sessions'[i] = sessions[i]
        /\ pending_sessions[TempId(t)] # t => sessions'[RealId(t)] = sessions[RealId(t)]
        /\ pending_sessions'[TempId(t)] = None
        /\ \A i \in Id \ {TempId(t)} : temp_to_real'[i] = temp_to_real[i]
    BY <1>6, <2>1 DEF Register, TypeOK
  <2>3. \A x : Before(lock, Stopper, x) => Before(lock', Stopper, x)
    BY <1>6, StaysBehind DEF Register
  <2>4. NewOrBehind'
    <3>1. ASSUME NEW s \in Task \ {t}, pc[s] = "creating", NewFor(s) PROVE NewFor(s)'
      <4>1. TempId(s) # TempId(t)
        BY <2>1, <3>1, OwnTempId
      <4>2. temp_to_real[TempId(s)] # RealId(t)
        BY <4>1 DEF MapInv, ForwardsToReal
      <4> QED
        BY <2>1, <2>2, <3>1, <4>1, <4>2 DEF NewFor
    <3> QED
      BY <2>1, <2>3, <3>1 DEF NewInv, NewOrBehind
  <2>5. \A s \in Task : s \in Known' => s \in Known
    BY <1>a, <2>1, <2>2 DEF KnownById
  <2>6. KnownIsLive' /\ StoppingIsUnknown'
    BY <2>1, <2>5 DEF NewInv, KnownIsLive, StoppingIsUnknown, Known
  <2>7. StoppedOrBehind'
    BY <2>1, <2>3 DEF NewInv, StoppedOrBehind, Active
  <2> QED
    BY <2>4, <2>6, <2>7 DEF NewInv
<1>7. ASSUME NEW t \in Task, RemoveSession(t) PROVE NewInv'
  <2>1. /\ UNCHANGED <<lock, parent, freed, cancelled, stop_all, shut_down, temp_to_real>>
        /\ \A s \in Task \ {t} : pc'[s] = pc[s]
        /\ pc[t] = "removing" /\ pc'[t] = "stopping"
        /\ \A s \in Task : TempId(s)' = TempId(s) /\ RealId(s)' = RealId(s)
    BY <1>7 DEF RemoveSession, TypeOK, TempId, RealId
  <2>2. \A i \in Id : /\ pending_sessions'[i] \in {pending_sessions[i], None}
                      /\ sessions'[i] \in {sessions[i], None}
    BY <1>7 DEF RemoveSession, TypeOK
  <2>3. pending_sessions'[TempId(t)] # t
    BY <1>7, <2>2 DEF RemoveSession, TypeOK, MapInv, PendingUnderKey
  <2>4. sessions'[RealId(t)] # t
    <3>1. ASSUME sessions[RealId(t)] = t PROVE key[t] = RealId(t) /\ pending_sessions[key[t]] = None
      BY <3>1 DEF TypeOK, MapInv, PendingUnderKey, SessionUnderKey
    <3> QED
      BY <1>7, <2>2, <3>1 DEF RemoveSession, TypeOK
  <2>5. t \notin Known'
    BY <1>a, <2>1, <2>3, <2>4 DEF KnownById
  <2> QED
    BY <1>1, <2>1, <2>2, <2>5
<1>8. ASSUME NEW t \in Task, RemoveDone(t) PROVE NewInv'
  <2>1. /\ UNCHANGED <<pending_sessions, sessions, parent, freed, cancelled, stop_all, shut_down>>
        /\ \A s \in Task \ {t} : pc'[s] = pc[s]
        /\ pc[t] = "stopping" /\ pc'[t] = "ended"
        /\ \A i \in Id : temp_to_real'[i] \in {temp_to_real[i], None}
    BY <1>8 DEF RemoveDone, TypeOK
  <2>2. \A x : Before(lock, Stopper, x) => Before(lock', Stopper, x)
    BY <1>8, StaysBehind DEF RemoveDone, LockInv, StoppingHolds
  <2>3. Known' = Known /\ t \notin Known
    BY <2>1 DEF Known, NewInv, StoppingIsUnknown
  <2> QED
    BY <1>1, <2>1, <2>2, <2>3
<1>9. ASSUME NEW t \in Task, Stop(t) PROVE NewInv'
  <2>1. /\ UNCHANGED <<pending_sessions, sessions, temp_to_real, parent, freed, stop_all, shut_down>>
        /\ \A s \in Task \ {t} : pc'[s] = pc[s] /\ cancelled'[s] = cancelled[s]
        /\ cancelled'[t] = TRUE
        /\ pc'[t] \in {"killing", "cleaning"}
        /\ \A s \in Task : TempId(s)' = TempId(s) /\ RealId(s)' = RealId(s)
    BY <1>9 DEF Stop, Cancel, Interrupted, TypeOK, TempId, RealId
  <2>2. \A x \in Task \ {t} : Before(lock, Stopper, x) => Before(lock', Stopper, x)
    BY <1>9, CancelsLock DEF Stop
  <2>3. Known' = Known
    BY <2>1 DEF Known
  <2>4. NewOrBehind'
    <3>1. \A s \in Task : NewFor(s) => NewFor(s)'
      BY <2>1 DEF NewFor
    <3> QED
      BY <2>1, <2>2, <3>1 DEF NewInv, NewOrBehind
  <2>5. KnownIsLive' /\ StoppingIsUnknown' /\ StoppedOrBehind'
    BY <2>1, <2>2, <2>3 DEF NewInv, KnownIsLive, StoppingIsUnknown, StoppedOrBehind, Active, Known
  <2> QED
    BY <2>4, <2>5 DEF NewInv
<1>10. CASE StopAll
  <2>1. PICK ts \in SUBSET Task : ts = {t \in current : Active(t)}
    BY DEF TypeOK
  <2>2. PICK q : q = Append(lock, Stopper)
    OBVIOUS
  <2>3. Cancel(ts, q)
    BY <1>10, <2>1, <2>2 DEF StopAll
  <2>4. /\ q \in Seq(Task \cup {Stopper}) /\ IsInjective(q)
        /\ \A x, y : Before(lock, x, y) => Before(q, x, y)
    BY <1>10, <2>2, QueueAppend, BeforeAppend DEF StopAll, LockInv, StopperInLine
  <2>5. /\ UNCHANGED <<pending_sessions, sessions, temp_to_real, parent, shut_down>>
        /\ stop_all' = "waiting"
        /\ \A s \in Task : cancelled'[s] = (cancelled[s] \/ s \in ts)
        /\ \A s \in Task \ ts : pc'[s] = pc[s]
        /\ \A s \in ts : pc'[s] \in {"killing", "draining", "cleaning", "ended"}
        /\ \A s \in Task : TempId(s)' = TempId(s) /\ RealId(s)' = RealId(s)
    BY <1>10, <2>1, <2>3, InterruptedAt DEF StopAll, Cancel, TempId, RealId
  <2>6. \A x \in Task \ ts : Before(lock, Stopper, x) => Before(lock', Stopper, x)
    BY <2>3, <2>4, CancelsLock
  <2>7. NewOrBehind'
    <3>1. \A s \in Task : NewFor(s) => NewFor(s)'
      BY <2>5 DEF NewFor
    <3> QED
      BY <2>5, <2>6, <3>1 DEF NewInv, NewOrBehind
  <2>8. KnownIsLive' /\ StoppingIsUnknown'
    BY <2>5 DEF NewInv, KnownIsLive, StoppingIsUnknown, Known
  <2>9. StoppedOrBehind'
    BY <2>1, <2>5 DEF StoppedOrBehind, CancelInv, ActiveIsCurrent, Active
  <2> QED
    BY <2>7, <2>8, <2>9 DEF NewInv
<1>11. CASE Shutdown
  <2>1. /\ UNCHANGED <<pending_sessions, sessions, temp_to_real, parent, pc>>
        /\ stop_all' = "waiting" /\ shut_down' = TRUE
        /\ \A s \in Task : TempId(s)' = TempId(s) /\ RealId(s)' = RealId(s)
    BY <1>11 DEF Shutdown, TempId, RealId
  <2>2. \A x : Before(lock, Stopper, x) => Before(lock', Stopper, x)
    BY <1>11, StaysBehind DEF Shutdown
  <2>3. \A s \in Task : NewFor(s) => NewFor(s)'
    BY <2>1 DEF NewFor
  <2> QED
    BY <2>1, <2>2, <2>3 DEF NewInv, NewOrBehind, KnownIsLive, StoppingIsUnknown, Known, StoppedOrBehind
<1>12. CASE StopAllTake
  <2>1. /\ UNCHANGED <<pending_sessions, sessions, temp_to_real, parent, pc, lock, freed, cancelled, shut_down>>
        /\ stop_all = "waiting" /\ stop_all' = "stopping"
        /\ \A s \in Task : TempId(s)' = TempId(s) /\ RealId(s)' = RealId(s)
    BY <1>12 DEF StopAllTake, TempId, RealId
  <2>2. \A s \in Task : NewFor(s) => NewFor(s)'
    BY <2>1 DEF NewFor
  <2> QED
    BY <2>1, <2>2 DEF NewInv, NewOrBehind, KnownIsLive, StoppingIsUnknown, Known, StoppedOrBehind, Active
<1>13. CASE StopAllStopped \/ \E t \in Task : StopAllSignal(t) \/ Exit(t) \/ Closed(t)
  <2>1. UNCHANGED <<pending_sessions, sessions, temp_to_real, parent, pc, lock, freed, cancelled, stop_all, shut_down>>
    BY <1>13 DEF StopAllStopped, StopAllSignal, Exit, Closed
  <2> QED
    BY <1>1, <2>1
<1>14. CASE StopAllEnd
  <2>1. /\ UNCHANGED <<parent, pc>> /\ stop_all' = "idle"
        /\ \A i \in Id : pending_sessions'[i] = None /\ sessions'[i] = None /\ temp_to_real'[i] = None
        /\ \A s \in Task : TempId(s)' = TempId(s) /\ RealId(s)' = RealId(s)
    BY <1>14 DEF StopAllEnd, TempId, RealId
  <2>2. \A s \in Task : s \notin Known'
    BY <1>a, <2>1 DEF KnownById
  <2>3. NewOrBehind'
    BY <2>1 DEF NewOrBehind, NewFor
  <2> QED
    BY <2>1, <2>2, <2>3 DEF NewInv, KnownIsLive, StoppingIsUnknown, StoppedOrBehind, Known
<1> QED
  BY <1>2, <1>3, <1>4, <1>5, <1>6, <1>7, <1>8, <1>9, <1>10, <1>11, <1>12, <1>13, <1>14
  DEF Next, InTurn, Turn, TaskStep, World, StopAllStep

-----------------------------------------------------------------------------
\* What SIGTERM changes: a living process is told to stop, the others stay.
LEMMA Signals ==
    ASSUME TypeOK, NEW ts, Signal(ts), NEW t \in Task
    PROVE  /\ Alive(t)' <=> Alive(t)
           /\ process'[t] = "running" => process[t] = "running" /\ t \notin ts
           /\ process[t] = "none" => process'[t] = "none"
           /\ process[t] = "signalled" => process'[t] = "signalled"
  BY DEF TypeOK, Signal, Alive

\* A process that runs on is one the manager can still stop, and one that lives
\* is in the registry or has been told to stop.
LEMMA ProcKept ==
    ASSUME Inv, [Next]_vars, TypeOK', MapInv'
    PROVE  ProcInv'
<1> USE Ids, LockFacts
<1> USE DEF mapVars, stopMarks, taskVars, stopVars
<1>0. TypeOK /\ LockInv /\ CancelInv /\ MapInv /\ NewInv /\ ProcInv
  BY DEF Inv
<1>a. KnownById /\ KnownById'
  <2>1. (TypeOK /\ MapInv => KnownById)'
    BY Knows, PTL
  <2> QED
    BY <1>0, <2>1, Knows
\* A step that leaves the manager alone keeps what the manager can stop.
<1>b. ASSUME UNCHANGED <<pending_sessions, sessions, parent, removed>>
      PROVE  /\ Known' = Known
             /\ \A s \in Task : Taken(s)' = Taken(s) /\ TempId(s)' = TempId(s)
  BY <1>b DEF Known, Taken, TempId
\* While a task has the lock, stop_all has not.
<1>c. ASSUME NEW t \in Task, Holds(t) PROVE stop_all # "stopping"
  BY <1>0, <1>c DEF LockInv, StopAllHolds, Holds
<1>1. CASE UNCHANGED vars
  BY <1>0, <1>1, <1>b DEF vars, ProcInv, RunningIsKeyed, NoneYet, RunningIsKnown, SlotIsKept,
                          WillBeStopped, KilledIsShielded, TrackedOrStopped, Alive
<1>2. ASSUME NEW t \in Task, NEW p \in Parent \cup {NoParent}, Begin(t, p) PROVE ProcInv'
  <2>1. /\ \A s \in Task \ {t} : TempId(s)' = TempId(s) /\ pc'[s] = pc[s]
        /\ pc[t] = "idle" /\ pc'[t] = "creating"
        /\ UNCHANGED <<mapVars, key, removed, process, pids, shielded, stopVars>>
    BY <1>0, <1>2 DEF Begin, TempId, TypeOK
  <2>2. Known' = Known /\ \A s \in Task : Taken(s)' = Taken(s)
    BY <2>1 DEF Known, Taken
  <2>3. RunningIsKeyed' /\ NoneYet' /\ KilledIsShielded' /\ TrackedOrStopped'
    BY <1>0, <2>1 DEF ProcInv, RunningIsKeyed, NoneYet, KilledIsShielded, TrackedOrStopped, Alive
  <2>4. RunningIsKnown' /\ SlotIsKept'
    BY <1>0, <2>1, <2>2 DEF ProcInv, RunningIsKnown, SlotIsKept, NoneYet
  <2>5. WillBeStopped'
    BY <1>0, <2>1, <2>2 DEF ProcInv, WillBeStopped, NoneYet, Known
  <2> QED
    BY <2>3, <2>4, <2>5 DEF ProcInv
<1>3. ASSUME NEW t \in Task, GetOrCreate(t) PROVE ProcInv'
  <2>1. /\ \A s \in Task : TempId(s)' = TempId(s) /\ RealId(s)' = RealId(s)
        /\ \A s \in Task \ {t} : pc'[s] = pc[s] /\ key'[s] = key[s]
        /\ \A i \in Id \ {TempId(t)} : pending_sessions'[i] = pending_sessions[i]
        /\ pending_sessions'[TempId(t)] = t
        /\ pc[t] = "creating" /\ pc'[t] = "spawning" /\ key'[t] = TempId(t) /\ Holds(t)
        /\ UNCHANGED <<sessions, removed, process, pids, shielded, stopVars>>
    BY <1>0, <1>3 DEF GetOrCreate, TempId, RealId, TypeOK
  <2>2. pending_sessions[TempId(t)] = None
    <3>1. ~Before(lock, Stopper, t)
      BY <1>0, <2>1, BeforeHead DEF Holds
    <3> QED
      BY <1>0, <2>1, <3>1 DEF NewInv, NewOrBehind, NewFor
  <2>3. \A s \in Task : s \in Known => s \in Known'
    BY <1>0, <1>a, <2>1, <2>2 DEF KnownById
  <2>4. RunningIsKeyed' /\ NoneYet' /\ KilledIsShielded' /\ TrackedOrStopped'
    BY <1>0, <2>1 DEF ProcInv, RunningIsKeyed, NoneYet, KilledIsShielded, TrackedOrStopped, Alive
  <2>5. RunningIsKnown' /\ WillBeStopped'
    BY <1>0, <1>c, <2>1, <2>3 DEF ProcInv, RunningIsKnown, WillBeStopped, NoneYet, Taken
  <2>6. SlotIsKept'
    <3>1. ASSUME NEW s \in Task \ {t}, pc[s] \in {"spawning", "reading", "registering"}
          PROVE  pending_sessions'[TempId(s)] = pending_sessions[TempId(s)]
      BY <1>0, <2>1, <3>1, OwnTempId
    <3> QED
      BY <1>0, <2>1, <3>1 DEF ProcInv, SlotIsKept, Taken
  <2> QED
    BY <2>4, <2>5, <2>6 DEF ProcInv
<1>4. ASSUME NEW t \in Task, Spawn(t) PROVE ProcInv'
  <2>1. /\ \A s \in Task \ {t} : pc'[s] = pc[s] /\ process'[s] = process[s]
        /\ pc[t] = "spawning" /\ pc'[t] = "reading" /\ process'[t] = "running" /\ pids' = pids \cup {t}
        /\ UNCHANGED <<mapVars, parent, key, removed, shielded, stopVars>>
    BY <1>0, <1>4 DEF Spawn, TypeOK
  <2>2. RunningIsKeyed' /\ NoneYet' /\ KilledIsShielded' /\ TrackedOrStopped'
    BY <1>0, <2>1 DEF ProcInv, RunningIsKeyed, NoneYet, KilledIsShielded, TrackedOrStopped, Alive,
                      MapInv, KeyIsTemp
  <2>3. RunningIsKnown' /\ SlotIsKept' /\ WillBeStopped'
    BY <1>0, <1>b, <2>1 DEF ProcInv, RunningIsKnown, SlotIsKept, WillBeStopped, Known
  <2> QED
    BY <2>2, <2>3 DEF ProcInv
<1>5. ASSUME NEW t \in Task, SpawnFail(t) \/ GeneratorEnds(t) \/ SessionInfo(t) \/ Clean(t)
      PROVE  ProcInv'
  <2>1. /\ \A s \in Task \ {t} : pc'[s] = pc[s]
        /\ \/ pc[t] = "spawning" /\ pc'[t] = "cleaning"
           \/ process[t] = "exited" /\ pc'[t] = "cleaning"
           \/ pc[t] = "reading" /\ pc'[t] = "registering"
           \/ pc[t] = "cleaning" /\ pc'[t] \in {"removing", "ended"}
        /\ pids' = pids \/ (pids' = pids \ {t} /\ process[t] = "exited")
        /\ UNCHANGED <<mapVars, parent, key, removed, process, shielded, stopVars>>
    BY <1>0, <1>5 DEF SpawnFail, GeneratorEnds, SessionInfo, Clean, TypeOK
  <2>2. RunningIsKeyed' /\ NoneYet' /\ KilledIsShielded' /\ TrackedOrStopped'
    BY <1>0, <2>1 DEF ProcInv, RunningIsKeyed, NoneYet, KilledIsShielded, TrackedOrStopped, Alive
  <2>3. RunningIsKnown' /\ SlotIsKept' /\ WillBeStopped'
    BY <1>0, <1>b, <2>1 DEF ProcInv, RunningIsKnown, SlotIsKept, WillBeStopped, NoneYet, Known
  <2> QED
    BY <2>2, <2>3 DEF ProcInv
<1>6. ASSUME NEW t \in Task, Register(t) PROVE ProcInv'
  <2>1. /\ \A s \in Task : TempId(s)' = TempId(s) /\ RealId(s)' = RealId(s)
        /\ \A s \in Task \ {t} : pc'[s] = pc[s] /\ key'[s] = key[s]
        /\ pc[t] = "registering" /\ pc'[t] = "reading" /\ key'[t] = RealId(t) /\ Holds(t)
        /\ pending_sessions[TempId(t)] \in {t, None}
        /\ UNCHANGED <<removed, process, pids, shielded, stopVars>>
    BY <1>0, <1>6 DEF Register, TempId, RealId, TypeOK, MapInv, SlotIsOwn
  <2>2. /\ \A i \in Id \ {TempId(t)} : pending_sessions'[i] = pending_sessions[i]
        /\ \A i \in Id \ {RealId(t)} : sessions'[i] = sessions[i]
        /\ sessions'[RealId(t)] \in {t, sessions[RealId(t)]}
        /\ pending_sessions[TempId(t)] = t => sessions'[RealId(t)] = t
    BY <1>0, <1>6, <2>1 DEF Register, TypeOK
  <2>3. \A s \in Task : s \in Known => s \in Known'
    BY <1>0, <1>a, <2>1, <2>2 DEF KnownById
  <2>4. RunningIsKeyed' /\ NoneYet' /\ KilledIsShielded' /\ TrackedOrStopped'
    BY <1>0, <2>1 DEF ProcInv, RunningIsKeyed, NoneYet, KilledIsShielded, TrackedOrStopped, Alive
  <2>5. RunningIsKnown' /\ WillBeStopped'
    BY <1>0, <1>c, <2>1, <2>3 DEF ProcInv, RunningIsKnown, WillBeStopped, Taken
  <2>6. SlotIsKept'
    BY <1>0, <2>1, <2>2 DEF ProcInv, SlotIsKept, Taken
  <2> QED
    BY <2>4, <2>5, <2>6 DEF ProcInv
<1>7. ASSUME NEW t \in Task, RemoveSession(t) PROVE ProcInv'
  <2>1. /\ \A s \in Task : TempId(s)' = TempId(s) /\ RealId(s)' = RealId(s)
        /\ \A s \in Task \ {t} : pc'[s] = pc[s] /\ removed'[s] = removed[s]
        /\ pc[t] = "removing" /\ pc'[t] = "stopping" /\ removed[t] = None /\ removed'[t] = Found(t) /\ Holds(t)
        /\ key[t] \in Id /\ Found(t) \in Task \cup {None}
        /\ UNCHANGED <<key, pids, shielded, stopVars>>
    BY <1>0, <1>7 DEF RemoveSession, TempId, RealId, TypeOK, CancelInv, NothingRemovedYet, MapInv, KeyIsSet, Found
  <2>2. Signal({Found(t)} \ {None})
    BY <1>7 DEF RemoveSession
  <2>3. /\ \A i \in Id \ {key[t]} : pending_sessions'[i] = pending_sessions[i] /\ sessions'[i] = sessions[i]
        /\ pending_sessions[key[t]] = pending_sessions'[key[t]] \/ pending_sessions[key[t]] = Found(t)
        /\ sessions[key[t]] = sessions'[key[t]] \/ sessions[key[t]] = Found(t)
    BY <1>0, <1>7, <2>1 DEF RemoveSession, TypeOK, Found
  <2>4. \A s \in Task : Taken(s) => Taken(s)'
    <3>1. None \notin Task
      BY <1>0
    <3> QED
      BY <2>1, <3>1 DEF Taken
  <2>5. \A s \in Task : s \in Known => s \in Known' \/ s = Found(t)
    BY <1>0, <1>a, <2>1, <2>3 DEF KnownById
  <2>6. RunningIsKeyed' /\ NoneYet' /\ KilledIsShielded'
    BY <1>0, <2>1, <2>2, Signals DEF ProcInv, RunningIsKeyed, NoneYet, KilledIsShielded
  <2>7. TrackedOrStopped'
    BY <1>0, <2>1, <2>2, Signals DEF ProcInv, TrackedOrStopped
  <2>8. RunningIsKnown'
    BY <1>0, <2>1, <2>2, <2>4, <2>5, Signals DEF ProcInv, RunningIsKnown
  <2>9. SlotIsKept'
    BY <1>0, <2>1, <2>3, <2>4 DEF ProcInv, SlotIsKept, Taken
  <2>10. WillBeStopped'
    BY <1>c, <2>1 DEF WillBeStopped
  <2> QED
    BY <2>6, <2>7, <2>8, <2>9, <2>10 DEF ProcInv
<1>8. ASSUME NEW t \in Task, RemoveDone(t) PROVE ProcInv'
  <2>1. /\ \A s \in Task \ {t} : pc'[s] = pc[s]
        /\ pc[t] = "stopping" /\ pc'[t] = "ended" /\ Holds(t)
        /\ \A s \in Task : s \in pids /\ Alive(s) => s \in pids'
        /\ UNCHANGED <<pending_sessions, sessions, parent, key, removed, process, shielded, stopVars>>
    BY <1>0, <1>8 DEF RemoveDone, TypeOK, LockInv, StoppingHolds
  <2>2. RunningIsKeyed' /\ NoneYet' /\ KilledIsShielded' /\ TrackedOrStopped'
    BY <1>0, <2>1 DEF ProcInv, RunningIsKeyed, NoneYet, KilledIsShielded, TrackedOrStopped, Alive
  <2>3. RunningIsKnown' /\ SlotIsKept' /\ WillBeStopped'
    BY <1>0, <1>b, <1>c, <2>1 DEF ProcInv, RunningIsKnown, SlotIsKept, WillBeStopped
  <2> QED
    BY <2>2, <2>3 DEF ProcInv
<1>9. ASSUME NEW q, NEW ts \in SUBSET Task, Cancel(ts, q), \A t \in ts : Active(t), ~shut_down,
             UNCHANGED <<mapVars, parent, key, removed, shut_down>>
      PROVE  /\ RunningIsKeyed' /\ NoneYet' /\ KilledIsShielded' /\ TrackedOrStopped'
             /\ RunningIsKnown' /\ SlotIsKept'
  <2>1. /\ \A s \in ts : /\ pc'[s] \in {"killing", "draining", "cleaning", "ended"}
                         /\ pc'[s] = "killing" <=> pc[s] = "reading"
                         /\ pc'[s] = "draining" <=> pc[s] = "killing"
        /\ \A s \in Task \ ts : pc'[s] = pc[s]
        /\ shielded' = shielded \cup {t \in ts : pc[t] = "reading"}
        /\ pids' = pids \ {t \in ts : pc[t] = "draining"}
    BY <1>0, <1>9, InterruptedAt DEF Cancel
  <2>2. Signal({t \in ts : pc[t] = "reading"})
    BY <1>9 DEF Cancel
  <2>3. /\ \A s \in Task : Alive(s)' <=> Alive(s)
        /\ \A s \in Task : process'[s] = "running" => process[s] = "running" /\ ~(s \in ts /\ pc[s] = "reading")
        /\ \A s \in Task : process[s] = "none" => process'[s] = "none"
        /\ \A s \in Task : process[s] = "signalled" => process'[s] = "signalled"
    BY <1>0, <2>2, Signals
  <2>4. RunningIsKeyed' /\ NoneYet' /\ KilledIsShielded'
    BY <1>0, <1>9, <2>1, <2>3 DEF ProcInv, RunningIsKeyed, NoneYet, KilledIsShielded, Active
  <2>5. TrackedOrStopped'
    BY <1>0, <2>1, <2>3 DEF ProcInv, TrackedOrStopped, RunningIsKeyed, KilledIsShielded, Alive
  <2>6. RunningIsKnown'
    BY <1>0, <1>9, <1>a, <1>b, <2>1, <2>3 DEF ProcInv, RunningIsKnown, SlotIsKept, RunningIsKeyed, MapInv, KeyIsTemp, KnownById
  <2>7. SlotIsKept'
    BY <1>0, <1>9, <1>b, <2>1 DEF ProcInv, SlotIsKept
  <2> QED
    BY <2>4, <2>5, <2>6, <2>7
<1>10. ASSUME NEW t \in Task, Stop(t) PROVE ProcInv'
  <2>1. /\ RunningIsKeyed' /\ NoneYet' /\ KilledIsShielded' /\ TrackedOrStopped'
        /\ RunningIsKnown' /\ SlotIsKept'
    BY <1>9, <1>10 DEF Stop, Active
  <2>2. ASSUME stop_all = "stopping" PROVE pc[t] = "creating"
    BY <1>0, <1>10, <2>2 DEF Stop, NewInv, StoppedOrBehind, Active
  <2>3. /\ \A s \in Task : process'[s] = "running" => process[s] = "running"
        /\ \A s \in Task \ {t} : pc'[s] = pc[s]
    BY <1>0, <1>10, Signals DEF Stop, Cancel
  <2>4. WillBeStopped'
    BY <1>0, <1>10, <1>b, <2>2, <2>3 DEF ProcInv, WillBeStopped, NoneYet, Stop, Known, TypeOK
  <2> QED
    BY <2>1, <2>4 DEF ProcInv
<1>11. CASE StopAll
  <2>1. PICK ts \in SUBSET Task : ts = {t \in current : Active(t)}
    BY <1>0 DEF TypeOK
  <2>2. Cancel(ts, Append(lock, Stopper))
    BY <1>11, <2>1 DEF StopAll
  <2>3. /\ RunningIsKeyed' /\ NoneYet' /\ KilledIsShielded' /\ TrackedOrStopped'
        /\ RunningIsKnown' /\ SlotIsKept'
    BY <1>9, <1>11, <2>1, <2>2 DEF StopAll
  <2>4. WillBeStopped'
    BY <1>11 DEF StopAll, WillBeStopped
  <2> QED
    BY <2>3, <2>4 DEF ProcInv
<1>12. CASE Shutdown \/ StopAllTake
  <2>1. /\ UNCHANGED <<mapVars, taskVars, process, pids>>
        /\ shut_down' = TRUE \/ shut_down' = shut_down
        /\ stop_all' = "stopping" => to_stop' = Known
    BY <1>12 DEF Shutdown, StopAllTake
  <2>2. RunningIsKeyed' /\ NoneYet' /\ KilledIsShielded' /\ TrackedOrStopped'
    BY <1>0, <2>1 DEF ProcInv, RunningIsKeyed, NoneYet, KilledIsShielded, TrackedOrStopped, Alive
  <2>3. RunningIsKnown' /\ SlotIsKept' /\ WillBeStopped'
    BY <1>0, <1>b, <2>1 DEF ProcInv, RunningIsKnown, SlotIsKept, WillBeStopped
  <2> QED
    BY <2>2, <2>3 DEF ProcInv
<1>13. ASSUME NEW s \in Task, StopAllSignal(s) PROVE ProcInv'
  <2>1. /\ UNCHANGED <<mapVars, taskVars, pids, stop_all, shut_down>>
        /\ to_stop' = to_stop \ {s} /\ Signal({s})
    BY <1>13 DEF StopAllSignal
  <2>2. /\ \A t \in Task : Alive(t)' <=> Alive(t)
        /\ \A t \in Task : process'[t] = "running" => process[t] = "running" /\ t # s
        /\ \A t \in Task : process[t] = "none" => process'[t] = "none"
        /\ \A t \in Task : process[t] = "signalled" => process'[t] = "signalled"
    BY <1>0, <2>1, Signals
  <2>3. RunningIsKeyed' /\ NoneYet' /\ KilledIsShielded' /\ TrackedOrStopped'
    BY <1>0, <2>1, <2>2 DEF ProcInv, RunningIsKeyed, NoneYet, KilledIsShielded, TrackedOrStopped
  <2>4. RunningIsKnown' /\ SlotIsKept' /\ WillBeStopped'
    BY <1>0, <1>b, <2>1, <2>2 DEF ProcInv, RunningIsKnown, SlotIsKept, WillBeStopped, Known
  <2> QED
    BY <2>3, <2>4 DEF ProcInv
<1>14. ASSUME UNCHANGED <<mapVars, taskVars, stop_all, to_stop, shut_down>>,
              \A t \in Task : process'[t] = process[t] \/ (process'[t] = "exited" /\ process[t] # "none"),
              \A t \in Task : Alive(t)' /\ t \in pids => t \in pids'
       PROVE  ProcInv'
  <2>1. RunningIsKeyed' /\ NoneYet' /\ KilledIsShielded' /\ TrackedOrStopped'
    BY <1>0, <1>14 DEF ProcInv, RunningIsKeyed, NoneYet, KilledIsShielded, TrackedOrStopped, Alive
  <2>2. RunningIsKnown' /\ SlotIsKept' /\ WillBeStopped'
    BY <1>0, <1>14, <1>b DEF ProcInv, RunningIsKnown, SlotIsKept, WillBeStopped, Known
  <2> QED
    BY <2>1, <2>2 DEF ProcInv
<1>15. CASE StopAllStopped
  BY <1>0, <1>14, <1>15 DEF StopAllStopped, Alive, TypeOK
<1>16. ASSUME NEW t \in Task, Exit(t) \/ Closed(t) PROVE ProcInv'
  BY <1>0, <1>14, <1>16 DEF Exit, Closed, Alive, TypeOK
<1>17. CASE StopAllEnd
  <2>1. /\ UNCHANGED <<taskVars, process, pids, shut_down>>
        /\ stop_all = "stopping" /\ to_stop = {} /\ stop_all' = "idle"
    BY <1>17 DEF StopAllEnd
  <2>2. RunningIsKeyed' /\ NoneYet' /\ KilledIsShielded' /\ TrackedOrStopped' /\ WillBeStopped'
    BY <1>0, <2>1 DEF ProcInv, RunningIsKeyed, NoneYet, KilledIsShielded, TrackedOrStopped, Alive, WillBeStopped
  <2>3. \A s \in Task : Taken(s)' = Taken(s)
    BY <2>1 DEF Taken
  <2>4. RunningIsKnown'
    BY <1>0, <2>1, <2>3 DEF ProcInv, RunningIsKnown, WillBeStopped
  <2>5. SlotIsKept'
    BY <1>0, <2>1 DEF SlotIsKept, NewInv, StoppedOrBehind, Active, CancelInv, CancelledIsLate, Late
  <2> QED
    BY <2>2, <2>4, <2>5 DEF ProcInv
<1> QED
  BY <1>1, <1>2, <1>3, <1>4, <1>5, <1>6, <1>7, <1>8, <1>10, <1>11, <1>12, <1>13, <1>15, <1>16, <1>17
  DEF Next, InTurn, Turn, TaskStep, World, StopAllStep

-----------------------------------------------------------------------------
LEMMA InitInv == Init => Inv
<1> SUFFICES ASSUME Init PROVE Inv
  OBVIOUS
<1>1. lock = <<>> /\ ToSet(lock) = {} /\ IsInjective(lock) /\ lock \in Seq(Task \cup {Stopper})
  BY QueueEmpty DEF Init
<1>2. TypeOK
  <2>1. stops \in 0..StopMax
    BY CliAssumption DEF Init
  <2> QED
    BY <1>1, <2>1 DEF Init, TypeOK, Location
<1>3. LockInv
  BY <1>1 DEF Init, LockInv, InLine, StopperInLine, StoppingHolds, StopAllHolds, Waits
<1>4. CancelInv
  BY DEF Init, CancelInv, CancelledIsLate, FreedIsCancelled, ActiveIsCurrent, Active, OneReplyRuns,
         NoKeyYet, NothingRemovedYet
<1>5. MapInv
  BY CliAssumption DEF Init, MapInv, PendingUnderKey, SessionUnderKey, ForwardsToReal, KeyIsOwn, KeyIsTemp,
                       KeyIsSet, SlotIsOwn
<1>6. NewInv /\ ProcInv
  BY CliAssumption DEF Init, NewInv, NewOrBehind, KnownIsLive, StoppingIsUnknown, StoppedOrBehind, Known,
         ProcInv, RunningIsKeyed, NoneYet, RunningIsKnown, SlotIsKept, WillBeStopped, KilledIsShielded,
         TrackedOrStopped, Alive
<1> QED
  BY <1>2, <1>3, <1>4, <1>5, <1>6 DEF Inv

LEMMA NextInv == Inv /\ [Next]_vars => Inv'
<1> SUFFICES ASSUME Inv, [Next]_vars PROVE Inv'
  OBVIOUS
<1>1. TypeOK'
  BY TypeKept DEF Inv, MapInv
<1>2. LockInv' /\ CancelInv' /\ MapInv'
  BY LockKept, CancelKept, MapKept DEF Inv
<1> QED
  BY <1>1, <1>2, NewKept, ProcKept DEF Inv

\* The invariant says what the sessions promise.
LEMMA InvIsSound == Inv => SessionsAreSound
<1> SUFFICES ASSUME Inv PROVE SessionsAreSound
  OBVIOUS
<1>1. NoSharedSession
  <2> SUFFICES ASSUME NEW t \in Task, pc[t] = "creating", Holds(t) PROVE IsNew(t)
    BY DEF NoSharedSession
  <2>1. TypeOK /\ MapInv
    BY DEF Inv
  <2>2. NewFor(t)
    BY BeforeHead, LockFacts DEF Inv, NewInv, NewOrBehind, Holds
  <2>3. CASE temp_to_real[TempId(t)] = None
    <3>1. sessions[TempId(t)] = None
      BY <2>1, Ids DEF TypeOK, MapInv, SessionUnderKey
    <3> QED
      BY <2>2, <2>3, <3>1 DEF IsNew, LookupId, NewFor
  <2>4. CASE temp_to_real[TempId(t)] # None
    <3>1. PICK r \in Task : temp_to_real[TempId(t)] = RealId(r)
      BY <2>1, <2>4, Ids DEF MapInv, ForwardsToReal
    <3>2. pending_sessions[RealId(r)] = None
      BY <2>1, Ids DEF TypeOK, MapInv, PendingUnderKey
    <3> QED
      BY <2>2, <2>4, <3>1, <3>2 DEF IsNew, LookupId, NewFor
  <2> QED
    BY <2>3, <2>4
<1>2. SlotsAreFreed
  BY DEF SlotsAreFreed, Inv, NewInv, KnownIsLive
<1>3. NoneLeftRunning
  BY <1>2 DEF NoneLeftRunning, SlotsAreFreed, Inv, ProcInv, RunningIsKnown, Taken
<1> QED
  BY <1>1, <1>2, <1>3 DEF SessionsAreSound, Inv, ProcInv

\* For any number of tasks, replies and /stop commands: no two tasks share a CLI
\* session, a task that has ended leaves neither a process that nobody told to
\* stop nor a session in the manager, and a living process is in the registry or
\* is being stopped (cli/manager.py, cli/session.py).
THEOREM Sessions == Spec => []SessionsAreSound
<1>1. Spec => []Inv
  BY InitInv, NextInv, PTL DEF Spec
<1> QED
  BY <1>1, InvIsSound, PTL
=============================================================================

----------------------------- MODULE CliSessions -----------------------------
(***************************************************************************)
(* The Claude CLI processes (cli/manager.py, cli/session.py,               *)
(* cli/process_registry.py) as the tasks of the nodes use them             *)
(* (messaging/handler.py:375-557).  A task gets a session from the         *)
(* manager, runs one CLI process in it, registers the session id the       *)
(* process reports, and removes the session when it is over.  The manager  *)
(* has one lock, held while a session is stopped, which can take as long   *)
(* as the process takes to die.  /stop cancels one task; a /stop without a *)
(* reply cancels the running task of every conversation, then stops every  *)
(* session the manager knows.                                              *)
(*                                                                         *)
(* A task that is not a reply has an id of its own while it is pending; a  *)
(* reply uses the session id of its parent, so the replies to one message  *)
(* share it.  The lock is the sequence of those who hold or await it, in   *)
(* the order asyncio serves them.  A process closes its pipes only by      *)
(* exiting, and it may take any time to obey SIGTERM.                      *)
(***************************************************************************)
EXTENDS Naturals, SequencesExt, FiniteSets, Queues

CONSTANTS Task,       \* tasks of nodes, one CLI session and process each
          Parent,     \* session ids of messages that are replied to
          NoParent,
          StopMax     \* bound: how many /stop without a reply are given

None == <<>>
Stopper == "stop_all"

ASSUME CliAssumption ==
    /\ NoParent \notin Parent
    /\ None \notin Task /\ Stopper \notin Task
    /\ StopMax \in Nat

VARIABLES
    parent,            \* the session id of the message each task replies to
    pending_sessions,  \* _pending_sessions: temporary id -> session
    sessions,          \* _sessions: reported id -> session
    temp_to_real,      \* _temp_to_real
    lock,              \* _lock: its holder, then those who wait for it
    pc,                \* where each task is suspended
    key,               \* the id under which the task will remove its session
    removed,           \* the session the task took out of the manager
    process,           \* the CLI process in the session the task created
    pids,              \* process_registry._pids, as the sessions' tasks
    cancelled,         \* the task was cancelled
    current,           \* the task each conversation started last
    freed,             \* tasks whose conversation was freed by a /stop without a reply
    shielded,          \* sessions whose shielded stop() is under way or over
    stop_all,          \* what /stop without a reply is doing
    to_stop,           \* sessions stop_all has still to stop
    stopping,          \* the session stop_all waits for
    stops,             \* number of /stop without a reply so far
    shut_down          \* the platform has stopped: no more commands

\* The id of a pending session, and the id its process reports.
TempId(t) == IF parent[t] = NoParent THEN <<"pending", t>> ELSE <<"parent", parent[t]>>
RealId(t) == <<"real", t>>
Id == ({"pending", "real"} \X Task) \cup ({"parent"} \X Parent)

mapVars == <<pending_sessions, sessions, temp_to_real>>
stopMarks == <<cancelled, current, freed, shielded>>
taskVars == <<parent, pc, key, removed, stopMarks>>
stopVars == <<stop_all, to_stop, stopping, stops, shut_down>>
vars == <<mapVars, lock, taskVars, process, pids, stopVars>>

\* In pc: the generator of the session is suspended at its own await in
\* "spawning", "reading", "killing" and "draining", at a yield in "registering".
Location == {"idle", "creating", "spawning", "reading", "registering", "killing",
             "draining", "cleaning", "removing", "stopping", "ended"}

TypeOK ==
    /\ pending_sessions \in [Id -> Task \cup {None}]
    /\ sessions \in [Id -> Task \cup {None}]
    /\ temp_to_real \in [Id -> Id \cup {None}]
    /\ lock \in Seq(Task \cup {Stopper}) /\ IsInjective(lock)
    /\ parent \in [Task -> Parent \cup {NoParent}]
    /\ pc \in [Task -> Location]
    /\ key \in [Task -> Id \cup {None}]
    /\ removed \in [Task -> Task \cup {None}]
    /\ process \in [Task -> {"none", "running", "signalled", "exited"}]
    /\ pids \subseteq Task
    /\ cancelled \in [Task -> BOOLEAN]
    /\ current \subseteq Task
    /\ freed \subseteq Task
    /\ shielded \subseteq Task
    /\ stop_all \in {"idle", "waiting", "stopping"}
    /\ to_stop \subseteq Task
    /\ stopping \in Task \cup {None}
    /\ stops \in 0..StopMax
    /\ shut_down \in BOOLEAN

Init ==
    /\ pending_sessions = [i \in Id |-> None]
    /\ sessions = [i \in Id |-> None]
    /\ temp_to_real = [i \in Id |-> None]
    /\ lock = <<>>
    /\ parent = [t \in Task |-> NoParent]
    /\ pc = [t \in Task |-> "idle"]
    /\ key = [t \in Task |-> None]
    /\ removed = [t \in Task |-> None]
    /\ process = [t \in Task |-> "none"]
    /\ pids = {}
    /\ cancelled = [t \in Task |-> FALSE]
    /\ current = {}
    /\ freed = {}
    /\ shielded = {}
    /\ stop_all = "idle"
    /\ to_stop = {}
    /\ stopping = None
    /\ stops = 0
    /\ shut_down = FALSE

-----------------------------------------------------------------------------
Holds(p) == lock # <<>> /\ Head(lock) = p
Alive(t) == process[t] \in {"running", "signalled"}

\* CLISession.stop up to its wait: a process that is not over gets SIGTERM.
Signal(ts) == process' = [t \in Task |-> IF t \in ts /\ Alive(t) THEN "signalled" ELSE process[t]]

\* The tree starts a task when the one before it has ended, or was cancelled
\* by a /stop without a reply, which frees the tree at once.
Begin(t, p) ==
    LET others == {s \in Task : pc[s] # "idle" /\ parent[s] = p /\ p # NoParent}
    IN  /\ pc[t] = "idle"
        /\ \A s \in others : pc[s] = "ended" \/ s \in freed
        /\ parent' = [parent EXCEPT ![t] = p]
        /\ pc' = [pc EXCEPT ![t] = "creating"]
        /\ lock' = Append(lock, t)
        /\ current' = (current \ others) \cup {t}
        /\ UNCHANGED <<mapVars, key, removed, cancelled, freed, shielded, process, pids, stopVars>>

LookupId(t) ==
    IF temp_to_real[TempId(t)] # None THEN temp_to_real[TempId(t)] ELSE TempId(t)

IsNew(t) == sessions[LookupId(t)] = None /\ pending_sessions[LookupId(t)] = None

\* get_or_create_session.  A session found under the id would be shared:
\* NoSharedSession says that none is ever found.
GetOrCreate(t) ==
    /\ pc[t] = "creating" /\ Holds(t) /\ IsNew(t)
    /\ pending_sessions' = [pending_sessions EXCEPT ![TempId(t)] = t]
    /\ key' = [key EXCEPT ![t] = TempId(t)]
    /\ pc' = [pc EXCEPT ![t] = "spawning"]
    /\ lock' = Tail(lock)
    /\ UNCHANGED <<sessions, temp_to_real, parent, removed, stopMarks, process, pids, stopVars>>

Spawn(t) ==
    /\ pc[t] = "spawning"
    /\ process' = [process EXCEPT ![t] = "running"]
    /\ pids' = pids \cup {t}
    /\ pc' = [pc EXCEPT ![t] = "reading"]
    /\ UNCHANGED <<mapVars, lock, parent, key, removed, stopMarks, stopVars>>

\* The binary cannot be started: the handler reports the exception.
SpawnFail(t) ==
    /\ pc[t] = "spawning"
    /\ pc' = [pc EXCEPT ![t] = "cleaning"]
    /\ UNCHANGED <<mapVars, lock, parent, key, removed, stopMarks, process, pids, stopVars>>

\* The first line with a session id: the handler registers it.
SessionInfo(t) ==
    /\ pc[t] = "reading" /\ key[t] = TempId(t)
    /\ pc' = [pc EXCEPT ![t] = "registering"]
    /\ lock' = Append(lock, t)
    /\ UNCHANGED <<mapVars, parent, key, removed, stopMarks, process, pids, stopVars>>

\* register_real_session_id; the handler uses the reported id from then on,
\* registered or not.
Register(t) ==
    LET s == pending_sessions[TempId(t)]
    IN  /\ pc[t] = "registering" /\ Holds(t)
        /\ IF s = None THEN UNCHANGED mapVars
           ELSE /\ pending_sessions' = [pending_sessions EXCEPT ![TempId(t)] = None]
                /\ sessions' = [sessions EXCEPT ![RealId(t)] = s]
                /\ temp_to_real' = [temp_to_real EXCEPT ![TempId(t)] = RealId(t)]
        /\ key' = [key EXCEPT ![t] = RealId(t)]
        /\ pc' = [pc EXCEPT ![t] = "reading"]
        /\ lock' = Tail(lock)
        /\ UNCHANGED <<parent, removed, stopMarks, process, pids, stopVars>>

\* The process is over and its pipes are read to their end: the generator ends,
\* with an exit event or, after a cancellation, with the CancelledError.
GeneratorEnds(t) ==
    /\ pc[t] \in {"reading", "killing", "draining"}
    /\ process[t] = "exited"
    /\ pids' = pids \ {t}
    /\ pc' = [pc EXCEPT ![t] = "cleaning"]
    /\ UNCHANGED <<mapVars, lock, parent, key, removed, stopMarks, process, stopVars>>

-----------------------------------------------------------------------------
(* The finally of the handler: remove_session. *)

Clean_CapturedOnly(t) ==
    /\ pc[t] = "cleaning"
    /\ pc' = [pc EXCEPT ![t] = IF key[t] # RealId(t) THEN "ended" ELSE "removing"]
    /\ lock' = IF key[t] # RealId(t) THEN lock ELSE Append(lock, t)
    /\ UNCHANGED <<mapVars, parent, key, removed, stopMarks, process, pids, stopVars>>

Clean(t) ==
    /\ pc[t] = "cleaning"
    /\ pc' = [pc EXCEPT ![t] = IF key[t] = None THEN "ended" ELSE "removing"]
    /\ lock' = IF key[t] = None THEN lock ELSE Append(lock, t)
    /\ UNCHANGED <<mapVars, parent, key, removed, stopMarks, process, pids, stopVars>>

\* The session that t's clean-up finds in the manager.
Found(t) == IF pending_sessions[key[t]] # None THEN pending_sessions[key[t]] ELSE sessions[key[t]]

\* The session found under the id is taken out of the manager and its process
\* gets SIGTERM; the lock is held until the process is over.
RemoveSession(t) ==
    /\ pc[t] = "removing" /\ Holds(t)
    /\ IF pending_sessions[key[t]] # None
       THEN /\ pending_sessions' = [pending_sessions EXCEPT ![key[t]] = None]
            /\ UNCHANGED sessions
       ELSE /\ sessions' = [sessions EXCEPT ![key[t]] = None]
            /\ UNCHANGED pending_sessions
    /\ removed' = [removed EXCEPT ![t] = Found(t)]
    /\ Signal({Found(t)} \ {None})
    /\ pc' = [pc EXCEPT ![t] = "stopping"]
    /\ UNCHANGED <<temp_to_real, lock, parent, key, stopMarks, pids, stopVars>>

\* The stopped process is over, or there was none: the id that was temporary
\* is forgotten and the task ends.
RemoveDone(t) ==
    LET s == removed[t]
    IN  /\ pc[t] = "stopping"
        /\ s # None => process[s] # "signalled"
        /\ temp_to_real' = IF s = None \/ key[t] = TempId(t) THEN temp_to_real
                           ELSE [temp_to_real EXCEPT ![TempId(t)] = None]
        /\ pids' = IF s # None /\ Alive(s) THEN pids ELSE pids \ {s}
        /\ pc' = [pc EXCEPT ![t] = "ended"]
        /\ lock' = Tail(lock)
        /\ UNCHANGED <<pending_sessions, sessions, parent, key, removed, stopMarks, process, stopVars>>

-----------------------------------------------------------------------------
(* Cancellation.  Where a cancelled task goes from each of its awaits: *)

Interrupted(t) ==
    IF pc[t] = "reading" THEN "killing"        \* except CancelledError: shield(stop())
    ELSE IF pc[t] = "killing" THEN "draining"  \* the shielded stop goes on
    ELSE IF pc[t] \in {"creating", "draining",
                       "spawning",             \* asyncio kills the half-started process
                       "registering"}          \* the generator is abandoned at its yield
    THEN "cleaning"
    ELSE IF pc[t] \in {"removing",             \* the session stays where it is
                       "stopping"}             \* the wait for the process is given up
    THEN "ended"
    ELSE pc[t]

Active(t) == pc[t] \notin {"idle", "ended"}

\* The lock forgets a cancelled waiter, and a cancelled holder releases it.
Waits_NotRegistering(t) == pc[t] \in {"creating", "removing", "stopping"}

Waits(t) == pc[t] \in {"creating", "registering", "removing", "stopping"}

Cancel(ts, queue) ==
    /\ pc' = [t \in Task |-> IF t \in ts THEN Interrupted(t) ELSE pc[t]]
    /\ cancelled' = [t \in Task |-> cancelled[t] \/ t \in ts]
    /\ Signal({t \in ts : pc[t] = "reading"})
    /\ shielded' = shielded \cup {t \in ts : pc[t] = "reading"}
    /\ pids' = pids \ {t \in ts : pc[t] = "draining"}
    /\ lock' = Remaining(queue, {p \in ts : Waits(p)})

\* A reply-scoped /stop of a node that is neither COMPLETED nor ERROR.
Stop(t) ==
    /\ ~shut_down /\ t \in current /\ ~cancelled[t]
    /\ pc[t] \in {"creating", "spawning", "reading", "registering"}
    /\ Cancel({t}, lock)
    /\ UNCHANGED <<mapVars, parent, key, removed, current, freed, stopVars>>

\* stop_all_tasks: cancel_all frees every conversation and cancels its current
\* task, then stop_all waits for the lock.
StopAll ==
    /\ ~shut_down /\ stop_all = "idle" /\ stops < StopMax
    /\ stops' = stops + 1
    /\ stop_all' = "waiting"
    /\ freed' = freed \cup {t \in Task : Active(t)}
    /\ Cancel({t \in current : Active(t)}, Append(lock, Stopper))
    /\ UNCHANGED <<mapVars, parent, key, removed, current, to_stop, stopping, shut_down>>

\* The application stops: it stops the sessions and cancels nobody.
Shutdown ==
    /\ ~shut_down /\ stop_all = "idle"
    /\ shut_down' = TRUE
    /\ stop_all' = "waiting"
    /\ lock' = Append(lock, Stopper)
    /\ UNCHANGED <<mapVars, taskVars, process, pids, to_stop, stopping, stops>>

Known == {s \in Task : \E i \in Id : s \in {sessions[i], pending_sessions[i]}}

StopAllTake ==
    /\ stop_all = "waiting" /\ Holds(Stopper)
    /\ stop_all' = "stopping"
    /\ to_stop' = Known
    /\ UNCHANGED <<mapVars, lock, taskVars, process, pids, stopping, stops, shut_down>>

\* One session after the other: SIGTERM, then the wait.
StopAllSignal(s) ==
    /\ stopping = None /\ s \in to_stop
    /\ stopping' = IF Alive(s) THEN s ELSE None
    /\ to_stop' = to_stop \ {s}
    /\ Signal({s})
    /\ UNCHANGED <<mapVars, lock, taskVars, pids, stop_all, stops, shut_down>>

StopAllStopped ==
    /\ stopping # None /\ ~Alive(stopping)
    /\ stopping' = None
    /\ pids' = pids \ {stopping}
    /\ UNCHANGED <<mapVars, lock, taskVars, process, stop_all, to_stop, stops, shut_down>>

StopAllEnd ==
    /\ stop_all = "stopping" /\ to_stop = {} /\ stopping = None
    /\ pending_sessions' = [i \in Id |-> None]
    /\ sessions' = [i \in Id |-> None]
    /\ temp_to_real' = [i \in Id |-> None]
    /\ stop_all' = "idle"
    /\ lock' = Tail(lock)
    /\ UNCHANGED <<taskVars, process, pids, to_stop, stopping, stops, shut_down>>

-----------------------------------------------------------------------------
(* The processes. *)

\* A process ends by itself or because of SIGTERM, or is killed.
Exit(t) ==
    /\ Alive(t)
    /\ process' = [process EXCEPT ![t] = "exited"]
    /\ UNCHANGED <<mapVars, lock, taskVars, pids, stopVars>>

\* Who waits for the end of t in CLISession.stop, and kills it after 5 seconds.
Awaited(t) ==
    \/ t \in shielded
    \/ \E s \in Task : pc[s] = "stopping" /\ removed[s] = t
    \/ stopping = t

Kill(t) ==
    /\ process[t] = "signalled" /\ Awaited(t)
    /\ Exit(t)

\* An abandoned generator is closed by the loop; it reads stderr to its end.
Closed(t) ==
    /\ process[t] = "exited" /\ t \in pids
    /\ pc[t] \in {"cleaning", "removing", "stopping", "ended"}
    /\ pids' = pids \ {t}
    /\ UNCHANGED <<mapVars, lock, taskVars, process, stopVars>>

-----------------------------------------------------------------------------
\* Who gets the lock runs on to its next suspension before anything else happens.
Turn(t) == GetOrCreate(t) \/ Register(t) \/ RemoveSession(t)

InTurn == StopAllTake \/ \E t \in Task : Turn(t)

Quiet ==
    /\ \A t \in Task : Holds(t) => pc[t] = "stopping"
    /\ Holds(Stopper) => stop_all = "stopping"

TaskStep(t) == Quiet /\ (Spawn(t) \/ SpawnFail(t) \/ GeneratorEnds(t) \/ Clean(t) \/ RemoveDone(t))

StopAllStep == Quiet /\ (StopAllStopped \/ StopAllEnd \/ \E s \in Task : StopAllSignal(s))

World(t) == Quiet /\ ((\E p \in Parent \cup {NoParent} : Begin(t, p)) \/ SessionInfo(t) \/ Stop(t) \/ Exit(t) \/ Closed(t))

Next ==
    \/ InTurn
    \/ \E t \in Task : TaskStep(t) \/ World(t)
    \/ Quiet /\ (StopAll \/ Shutdown)
    \/ StopAllStep

Spec == Init /\ [][Next]_vars

\* The event loop runs every task that is ready, and the 5 second timeout of
\* CLISession.stop ends in SIGKILL, which no process survives.
SessionsFairness ==
    /\ WF_vars(InTurn)
    /\ \A t \in Task : WF_vars(TaskStep(t)) /\ WF_vars(Quiet /\ Kill(t))
    /\ WF_vars(StopAllStep)

FairSpec == Spec /\ SessionsFairness

-----------------------------------------------------------------------------
\* A reply never finds the session of another task under its parent's id, so no
\* two tasks share a session (cli/manager.py:71-77).
NoSharedSession == \A t \in Task : pc[t] = "creating" /\ Holds(t) => IsNew(t)

\* "Cancelling the handler task should not leave a Claude CLI subprocess running
\* in the background" (cli/session.py:243-244): a task that has ended has told its
\* process to stop, unless another task took its session out of the manager.
NoneLeftRunning ==
    \A t \in Task :
        pc[t] = "ended" /\ stop_all = "idle" =>
            process[t] # "running" \/ \E s \in Task \ {t} : removed[s] = t

\* Every living process is known to the registry that kills it at exit
\* (cli/process_registry.py:1-5).  A third cancellation breaks this: it ends the
\* generator, which forgets the process (cli/session.py:249, 280-283) although it
\* may not have obeyed SIGTERM yet.
TrackedWhileAlive == \A t \in Task : Alive(t) => t \in pids

\* What is left of it: a living process is in the registry, or it has been told
\* to stop and a shielded stop() waits for it to kill it (cli/session.py:245).
TrackedOrStopped ==
    \A t \in Task : Alive(t) => t \in pids \/ (process[t] = "signalled" /\ t \in shielded)

\* A task that has ended keeps no place in the manager (messaging/handler.py:542),
\* unless stop_all is about to empty it.
SlotsAreFreed ==
    \A t \in Task : pc[t] = "ended" /\ stop_all = "idle" => t \notin Known

\* "This kills subprocesses and ensures everything is dead"
\* (messaging/handler.py:612): once stop_all is over, no task that was cancelled
\* has a process that nobody has told to stop.
StoppedMeansDead ==
    [][StopAllEnd => \A t \in Task : cancelled[t] => process[t] # "running"]_vars

\* stop_all gets the lock and comes back, and a task that was cancelled ends,
\* however slowly processes die (cli/manager.py:106-127, cli/session.py:264-284).
StoppingEnds ==
    /\ stop_all # "idle" ~> stop_all = "idle"
    /\ \A t \in Task : cancelled[t] ~> pc[t] = "ended"

\* No two tasks share a CLI process, none is left running by a manager that let
\* go of it, a live one is tracked or being stopped and a slot is freed once
\* (cli/manager.py: get_or_create_session, remove_session, stop_all).
SessionsAreSound ==
    /\ TypeOK /\ NoSharedSession /\ NoneLeftRunning
    /\ TrackedOrStopped /\ SlotsAreFreed
=============================================================================

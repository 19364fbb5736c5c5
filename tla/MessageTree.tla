----------------------------- MODULE MessageTree -----------------------------
(***************************************************************************)
(* One message tree of the bot (messaging/trees/data.py), the tasks that   *)
(* process its nodes (messaging/trees/queue_manager.py), the coroutine     *)
(* that admits a reply (messaging/handler.py) and the /stop and /clear     *)
(* commands (messaging/commands.py).                                       *)
(*                                                                         *)
(* The code is asyncio: a step is atomic between two suspension points.    *)
(* The tree lock and the manager lock are never held across one, so they   *)
(* are never contended and do not appear.  The suspension points are:      *)
(*   - a reply waits for its status message to be sent (arrival),          *)
(*   - a task waits for its first turn on the loop ("created"), for the    *)
(*     session manager's lock ("session", "register"), for the next event  *)
(*     of the CLI process ("events"), for the process to die after a       *)
(*     cancellation ("unwind") and for remove_session ("cleanup"),         *)
(*   - /clear waits for the deletion of messages, and a global stop for    *)
(*     the processes to be killed.                                         *)
(* Other trees only show as contention on the session manager's lock.      *)
(***************************************************************************)
EXTENDS Naturals, Sequences, FiniteSets, SequencesExt, Queues

CONSTANTS Node,      \* message ids; a node's id is its message's id
          Root,      \* the message that opened the conversation
          None,      \* Python's None
          Commands,  \* which commands users give in this instance
          GlobalMax  \* bound: how many commands without a reply are given

AllCommands == {"stop", "stop_all", "clear", "clear_all"}

ASSUME TreeAssumption ==
    /\ Root \in Node
    /\ None \notin Node
    /\ Commands \subseteq AllCommands
    /\ GlobalMax \in Nat

VARIABLES
    nodes,            \* MessageTree._nodes: ids present in the tree
    parent,           \* MessageNode.parent_id (of a reply being admitted, too)
    state,            \* MessageNode.state; "absent" before the node exists
    queue,            \* MessageTree._queue
    is_processing,    \* MessageTree._is_processing
    current_node_id,  \* MessageTree._current_node_id
    current_task,     \* MessageTree._current_task, named by the node it serves
    node_to_tree,     \* TreeRepository._node_to_tree: nodes registered here
    in_repo,          \* TreeRepository._trees of the handler's manager has it
    stored,           \* nodes of this tree in the session store, {} if removed
    arrival,          \* the admitting coroutine of each message
    task,             \* where the asyncio task of each node is suspended
    must_cancel,      \* a cancellation was requested and not yet delivered
    captured,         \* captured_session_id is set in the task
    clearing,         \* branch whose messages a /clear is deleting, or None
    global_cmd,       \* where a /stop or /clear without a reply is suspended
    global_hit,       \* that command's cancelled_nodes is not empty
    global_count,     \* bound: commands without a reply given so far
    stopped           \* history: nodes a command moved to ERROR

treeVars == <<nodes, parent, state, node_to_tree, in_repo, stored>>
queueVars == <<queue, is_processing, current_node_id, current_task>>
taskVars == <<task, must_cancel, captured>>
cmdVars == <<clearing, global_cmd, global_hit, global_count>>
vars == <<treeVars, queueVars, taskVars, cmdVars, arrival, stopped>>

Finished == {"completed", "error"}
Active == {"pending", "in_progress"}
Suspended == {"session", "events", "register", "unwind", "cleanup"}
Live == {n \in Node : task[n] \in Suspended \cup {"created"}}
Conversing == {n \in Node : task[n] \in {"session", "events", "register"} /\ ~must_cancel[n]}

TypeOK ==
    /\ nodes \subseteq Node
    /\ parent \in [Node -> Node \cup {None}]
    /\ state \in [Node -> Active \cup Finished \cup {"absent"}]
    /\ queue \in Seq(Node)
    /\ is_processing \in BOOLEAN
    /\ current_node_id \in Node \cup {None}
    /\ current_task \in Node \cup {None}
    /\ node_to_tree \subseteq Node
    /\ in_repo \in BOOLEAN
    /\ stored \subseteq Node
    /\ arrival \in [Node -> {"unsent", "sending", "admitted", "rejected"}]
    /\ task \in [Node -> Suspended \cup {"none", "created", "done"}]
    /\ must_cancel \in [Node -> BOOLEAN]
    /\ captured \in [Node -> BOOLEAN]
    /\ clearing \in Node \cup {None}
    /\ global_cmd \in {"idle", "stopping", "clear_stopping", "deleting"}
    /\ global_hit \in BOOLEAN
    /\ global_count \in 0..GlobalMax
    /\ stopped \subseteq Node

(* The first message: create_tree, register, save and enqueue are one step. *)
Init ==
    /\ nodes = {Root}
    /\ parent = [n \in Node |-> None]
    /\ state = [n \in Node |-> IF n = Root THEN "pending" ELSE "absent"]
    /\ queue = <<>>
    /\ is_processing = TRUE
    /\ current_node_id = Root
    /\ current_task = Root
    /\ node_to_tree = {Root}
    /\ in_repo = TRUE
    /\ stored = {Root}
    /\ arrival = [n \in Node |-> IF n = Root THEN "admitted" ELSE "unsent"]
    /\ task = [n \in Node |-> IF n = Root THEN "created" ELSE "none"]
    /\ must_cancel = [n \in Node |-> FALSE]
    /\ captured = [n \in Node |-> FALSE]
    /\ clearing = None
    /\ global_cmd = "idle"
    /\ global_hit = FALSE
    /\ global_count = 0
    /\ stopped = {}

-----------------------------------------------------------------------------
(* Helpers of the tree. *)

\* get_tree_for_node finds this tree for n.
Found(n) == in_repo /\ n \in node_to_tree

\* Members of K below b, along child edges that stay in K.
Below(b, K) ==
    {n \in K : \A S \in SUBSET K :
        (\A m \in K : parent[m] \in S \cup {b} => m \in S) => n \in S}

\* get_descendants includes b itself.
Descendants(b) == {b} \cup Below(b, nodes)

PendingChildren(b) == Below(b, {m \in nodes : state[m] = "pending"})

SetState_Fresh(S, s) == [n \in S |-> s]

SetState(S, s) == [n \in Node |-> IF n \in S THEN s ELSE state[n]]

Without(S) == Remaining(queue, S)

\* _process_next at the end of the task of n: the next node of the queue gets
\* a task if it is still in the tree; an empty queue frees the tree.
ProcessNext(n) ==
    /\ must_cancel' = [must_cancel EXCEPT ![n] = FALSE]
    /\ \/ /\ queue = <<>>
          /\ is_processing' = FALSE
          /\ current_node_id' = None
          /\ task' = [task EXCEPT ![n] = "done"]
          /\ UNCHANGED <<queue, current_task>>
       \/ /\ queue # <<>>
          /\ queue' = Tail(queue)
          /\ is_processing' = TRUE
          /\ current_node_id' = Head(queue)
          /\ IF Head(queue) \in nodes
             THEN /\ current_task' = Head(queue)
                  /\ task' = [task EXCEPT ![n] = "done", ![Head(queue)] = "created"]
             ELSE /\ task' = [task EXCEPT ![n] = "done"]
                  /\ UNCHANGED current_task

EnqueueAndStart_Unguarded(n) ==
    /\ is_processing' = TRUE
    /\ current_node_id' = n
    /\ current_task' = n
    /\ task' = [task EXCEPT ![n] = "created"]
    /\ UNCHANGED queue

EnqueueAndStart_Front(n) ==
    IF is_processing
    THEN /\ queue' = <<n>> \o queue
         /\ UNCHANGED <<is_processing, current_node_id, current_task, task>>
    ELSE EnqueueAndStart_Unguarded(n)

EnqueueAndStart_Passive(n) ==
    /\ queue' = Append(queue, n)
    /\ is_processing' = TRUE
    /\ UNCHANGED <<current_node_id, current_task, task>>

\* enqueue_and_start
EnqueueAndStart(n) ==
    IF is_processing
    THEN /\ queue' = Append(queue, n)
         /\ UNCHANGED <<is_processing, current_node_id, current_task, task>>
    ELSE /\ is_processing' = TRUE
         /\ current_node_id' = n
         /\ current_task' = n
         /\ task' = [task EXCEPT ![n] = "created"]
         /\ UNCHANGED queue

CancelCurrentTask_Never == UNCHANGED must_cancel

\* cancel_current_task: no effect on a task that is done.
CancelCurrentTask ==
    must_cancel' = [n \in Node |-> must_cancel[n] \/ (n = current_task /\ n \in Live)]

ResetProcessingState_Forgotten == UNCHANGED <<is_processing, current_node_id>>

ResetProcessingState ==
    /\ is_processing' = FALSE
    /\ current_node_id' = None

-----------------------------------------------------------------------------
(* A reply (handle_message). *)

\* The replied-to message is looked up, then the status message is sent.
Arrive(n, p) ==
    /\ arrival[n] = "unsent"
    /\ Found(p) /\ p \in nodes
    /\ arrival' = [arrival EXCEPT ![n] = "sending"]
    /\ parent' = [parent EXCEPT ![n] = p]
    /\ UNCHANGED <<nodes, state, node_to_tree, in_repo, stored,
                   queueVars, taskVars, cmdVars, stopped>>

\* The status message is out: add_to_tree, registration, save and enqueue.
Admit(n) ==
    /\ arrival[n] = "sending"
    /\ Found(parent[n]) /\ parent[n] \in nodes
    /\ arrival' = [arrival EXCEPT ![n] = "admitted"]
    /\ nodes' = nodes \cup {n}
    /\ state' = [state EXCEPT ![n] = "pending"]
    /\ node_to_tree' = node_to_tree \cup {n}
    /\ stored' = nodes \cup {n}
    /\ EnqueueAndStart(n)
    /\ UNCHANGED <<parent, in_repo, must_cancel, captured, cmdVars, stopped>>

\* The parent was cleared meanwhile: add_to_tree raises ValueError.
Reject(n) ==
    /\ arrival[n] = "sending"
    /\ ~(Found(parent[n]) /\ parent[n] \in nodes)
    /\ arrival' = [arrival EXCEPT ![n] = "rejected"]
    /\ UNCHANGED <<treeVars, queueVars, taskVars, cmdVars, stopped>>

-----------------------------------------------------------------------------
(* The task of a node: process_node around _process_node_impl. *)

\* First turn of the task; a node in ERROR is skipped.  When the branch or the
\* tree was cleared meanwhile, the task runs without a tree.
Start(n) ==
    /\ task[n] = "created" /\ ~must_cancel[n] /\ state[n] # "error"
    /\ state' = IF Found(n) THEN [state EXCEPT ![n] = "in_progress"] ELSE state
    /\ task' = [task EXCEPT ![n] = "session"]
    /\ UNCHANGED <<nodes, parent, node_to_tree, in_repo, stored, queueVars,
                   must_cancel, captured, cmdVars, arrival, stopped>>

Skip(n) ==
    /\ task[n] = "created" /\ ~must_cancel[n] /\ state[n] = "error"
    /\ ProcessNext(n)
    /\ UNCHANGED <<treeVars, captured, cmdVars, arrival, stopped>>

\* A task cancelled before its first turn: its coroutine never runs, so neither
\* does its "finally".
DieBeforeStart(n) ==
    /\ task[n] = "created" /\ must_cancel[n]
    /\ task' = [task EXCEPT ![n] = "done"]
    /\ must_cancel' = [must_cancel EXCEPT ![n] = FALSE]
    /\ UNCHANGED <<treeVars, queueVars, captured, cmdVars, arrival, stopped>>

\* The handler's variable "tree" is not None: a task that found its tree left
\* PENDING at once, one that did not never does.
HasTree(n) == state[n] # "pending"

\* update_state through that variable; a removed node is only logged.
UpdateState(n, s) ==
    IF HasTree(n) /\ n \in nodes THEN [state EXCEPT ![n] = s] ELSE state

\* get_or_create_session answers.  The session of another task is shared (and
\* its id is then already known) only while such a task is alive.
SessionReady(n) ==
    /\ task[n] = "session" /\ ~must_cancel[n]
    /\ task' = [task EXCEPT ![n] = "events"]
    /\ \E reused \in {FALSE} \cup {Live # {n}} :
          captured' = [captured EXCEPT ![n] = reused]
    /\ UNCHANGED <<treeVars, queueVars, must_cancel, cmdVars, arrival, stopped>>

\* A session_info event makes the task wait for the session manager's lock.
SessionInfo(n) ==
    /\ task[n] = "events" /\ ~must_cancel[n] /\ ~captured[n]
    /\ task' = [task EXCEPT ![n] = "register"]
    /\ UNCHANGED <<treeVars, queueVars, must_cancel, captured, cmdVars, arrival, stopped>>

\* register_real_session_id returned: the state and the tree are saved.
Registered(n) ==
    /\ task[n] = "register" /\ ~must_cancel[n]
    /\ task' = [task EXCEPT ![n] = "events"]
    /\ captured' = [captured EXCEPT ![n] = TRUE]
    /\ state' = UpdateState(n, "in_progress")
    /\ stored' = IF HasTree(n) THEN nodes ELSE stored
    /\ UNCHANGED <<nodes, parent, node_to_tree, in_repo, queueVars,
                   must_cancel, cmdVars, arrival, stopped>>

\* mark_node_error with propagation to the pending nodes below n.
MarkNodeError(n) ==
    IF HasTree(n) /\ Found(n)
    THEN SetState({n} \cup PendingChildren(n), "error")
    ELSE state

\* An error event of the CLI (stderr output, an error line).
ErrorEvent(n) ==
    /\ task[n] = "events" /\ ~must_cancel[n]
    /\ state' = MarkNodeError(n)
    /\ UNCHANGED <<nodes, parent, node_to_tree, in_repo, stored, queueVars,
                   taskVars, cmdVars, arrival, stopped>>

\* The exit event.  A non-zero code is parsed into an error and a complete
\* event; a complete event counts only once the session id is known.
Exit(n, code) ==
    LET afterError == IF code = 0 THEN state ELSE MarkNodeError(n)
    IN  /\ task[n] = "events" /\ ~must_cancel[n]
        /\ task' = [task EXCEPT ![n] = "cleanup"]
        /\ state' = IF captured[n] /\ HasTree(n) /\ n \in nodes
                    THEN [afterError EXCEPT ![n] = "completed"] ELSE afterError
        /\ stored' = IF captured[n] /\ HasTree(n) THEN nodes ELSE stored
        /\ UNCHANGED <<nodes, parent, node_to_tree, in_repo, queueVars,
                       must_cancel, captured, cmdVars, arrival, stopped>>

\* Any other exception of the handler (the CLI cannot be launched, ...).
Crash(n) ==
    /\ task[n] = "events" /\ ~must_cancel[n]
    /\ task' = [task EXCEPT ![n] = "cleanup"]
    /\ state' = MarkNodeError(n)
    /\ UNCHANGED <<nodes, parent, node_to_tree, in_repo, stored, queueVars,
                   must_cancel, captured, cmdVars, arrival, stopped>>

\* CancelledError reaches start_task, which stops the process first.
Unwind(n) ==
    /\ task[n] = "events" /\ must_cancel[n]
    /\ task' = [task EXCEPT ![n] = "unwind"]
    /\ must_cancel' = [must_cancel EXCEPT ![n] = FALSE]
    /\ UNCHANGED <<treeVars, queueVars, captured, cmdVars, arrival, stopped>>

\* CancelledError reaches the handler, which swallows it.
Cancelled(n) ==
    /\ \/ task[n] = "unwind"
       \/ task[n] = "register" /\ must_cancel[n]
    /\ task' = [task EXCEPT ![n] = "cleanup"]
    /\ must_cancel' = [must_cancel EXCEPT ![n] = FALSE]
    /\ state' = UpdateState(n, "error")
    /\ UNCHANGED <<nodes, parent, node_to_tree, in_repo, stored, queueVars,
                   captured, cmdVars, arrival, stopped>>

\* Cancelled while waiting for a session: nothing to clean up.
CancelledEarly(n) ==
    /\ task[n] = "session" /\ must_cancel[n]
    /\ state' = UpdateState(n, "error")
    /\ ProcessNext(n)
    /\ UNCHANGED <<nodes, parent, node_to_tree, in_repo, stored,
                   captured, cmdVars, arrival, stopped>>

\* remove_session returned (or was itself cancelled): the "finally" of
\* process_node clears the current node and takes the next one.
Finish(n) ==
    /\ task[n] = "cleanup"
    /\ ProcessNext(n)
    /\ UNCHANGED <<treeVars, captured, cmdVars, arrival, stopped>>

-----------------------------------------------------------------------------
(* Commands. *)

\* /stop as a reply to n: stop_task and cancel_node.
Stop(n) ==
    /\ "stop" \in Commands
    /\ Found(n) /\ n \in nodes /\ state[n] \in Active
    /\ IF current_node_id = n THEN CancelCurrentTask ELSE UNCHANGED must_cancel
    /\ queue' = Without({n})
    /\ state' = SetState({n}, "error")
    /\ stored' = nodes
    /\ stopped' = stopped \cup {n}
    /\ UNCHANGED <<nodes, parent, node_to_tree, in_repo, is_processing, current_node_id,
                   current_task, task, captured, cmdVars, arrival>>

\* The effect of cancel_tree on the tree, its queue and its current task, and
\* whether it returns any node.
CancelTree ==
    LET hit == {n \in nodes : state[n] \in Active}
    IN  /\ CancelCurrentTask
        /\ state' = SetState(hit \cup (ToSet(queue) \cap nodes), "error")
        /\ queue' = <<>>
        /\ ResetProcessingState
        /\ stopped' = stopped \cup hit
        /\ UNCHANGED <<current_task, task, captured>>

CancelTreeHits ==
    \/ ToSet(queue) \cap nodes # {}
    \/ /\ current_task \in Live
       /\ current_node_id \in nodes
       /\ state[current_node_id] \notin Finished

\* /clear as a reply to b, up to the deletion of the messages: cancel_branch.
ClearBegin(b) ==
    LET hit == {n \in Descendants(b) : state[n] \in Active}
    IN  /\ "clear" \in Commands
        /\ clearing = None
        /\ Found(b) /\ b \in nodes
        /\ IF current_node_id \in hit THEN CancelCurrentTask ELSE UNCHANGED must_cancel
        /\ queue' = Without(hit \ {current_node_id})
        /\ state' = SetState(hit, "error")
        /\ stored' = IF hit # {} THEN nodes ELSE stored
        /\ stopped' = stopped \cup hit
        /\ clearing' = b
        /\ UNCHANGED <<nodes, parent, node_to_tree, in_repo, is_processing, current_node_id,
                       current_task, task, captured, global_cmd, global_hit, global_count, arrival>>

\* The messages are deleted: remove_branch and the session store.
ClearBranch ==
    LET gone == Descendants(clearing)
    IN  /\ clearing # None /\ clearing # Root
        /\ clearing' = None
        /\ IF Found(clearing)
           THEN /\ nodes' = nodes \ gone
                /\ node_to_tree' = node_to_tree \ gone
                /\ stored' = nodes'
           ELSE UNCHANGED <<nodes, node_to_tree, stored>>
        /\ UNCHANGED <<parent, state, in_repo, queueVars, taskVars,
                       global_cmd, global_hit, global_count, arrival, stopped>>

ClearRoot ==
    /\ clearing = Root
    /\ clearing' = None
    /\ IF Found(Root)
       THEN /\ CancelTree
            /\ in_repo' = FALSE
            /\ node_to_tree' = node_to_tree \ nodes
            /\ stored' = {}
       ELSE UNCHANGED <<state, queueVars, taskVars, in_repo, node_to_tree, stored, stopped>>
    /\ UNCHANGED <<nodes, parent, global_cmd, global_hit, global_count, arrival>>

\* /stop or /clear without a reply: cancel_all, then the processes are killed.
StopAllBegin(cmd, next) ==
    /\ cmd \in Commands /\ global_cmd = "idle" /\ in_repo
    /\ global_count < GlobalMax
    /\ global_count' = global_count + 1
    /\ CancelTree
    /\ global_cmd' = next
    /\ global_hit' = CancelTreeHits
    /\ UNCHANGED <<nodes, parent, node_to_tree, in_repo, stored, clearing, arrival>>

StopAll == StopAllBegin("stop_all", "stopping")
ClearAll == StopAllBegin("clear_all", "clear_stopping")

\* stop_all of the session manager returned: the affected trees are saved.
StopAllKilled ==
    /\ global_cmd \in {"stopping", "clear_stopping"}
    /\ global_cmd' = IF global_cmd = "stopping" THEN "idle" ELSE "deleting"
    /\ stored' = IF global_hit /\ in_repo THEN nodes ELSE stored
    /\ global_hit' = FALSE
    /\ UNCHANGED <<nodes, parent, state, node_to_tree, in_repo, queueVars, taskVars,
                   clearing, global_count, arrival, stopped>>

\* The messages are deleted: clear_all of the store and a new TreeQueueManager.
ClearAllEnd ==
    /\ global_cmd = "deleting"
    /\ global_cmd' = "idle"
    /\ stored' = {}
    /\ in_repo' = FALSE
    /\ UNCHANGED <<nodes, parent, state, node_to_tree, queueVars, taskVars,
                   clearing, global_hit, global_count, arrival, stopped>>

-----------------------------------------------------------------------------
HandlerStep(n) == Admit(n) \/ Reject(n)

TaskStep(n) ==
    \/ Start(n) \/ Skip(n) \/ DieBeforeStart(n)
    \/ SessionReady(n) \/ Registered(n)
    \/ Unwind(n) \/ Cancelled(n) \/ CancelledEarly(n)
    \/ Finish(n)

\* What the CLI process does; it is not under src/, its events are.
CliStep(n) == SessionInfo(n) \/ ErrorEvent(n) \/ Crash(n)
CliExit(n) == \E code \in {0, 1} : Exit(n, code)

UserStep ==
    \/ \E n, p \in Node : Arrive(n, p)
    \/ \E n \in Node : Stop(n) \/ ClearBegin(n)
    \/ StopAll \/ ClearAll

CommandStep == ClearBranch \/ ClearRoot \/ StopAllKilled \/ ClearAllEnd

Next ==
    \/ UserStep
    \/ CommandStep
    \/ \E n \in Node : HandlerStep(n) \/ TaskStep(n) \/ CliStep(n) \/ CliExit(n)

Spec == Init /\ [][Next]_vars

\* The event loop runs every ready coroutine, and a CLI process ends.
Fairness ==
    /\ WF_vars(CommandStep)
    /\ \A n \in Node : WF_vars(HandlerStep(n)) /\ WF_vars(TaskStep(n)) /\ WF_vars(CliExit(n))

FairSpec == Spec /\ Fairness

-----------------------------------------------------------------------------
(* Properties.  Which of them a command breaks is said with each. *)

\* At most one task of a tree is alive, through every reply, error, reply-scoped
\* /stop and /clear: enqueue_and_start only starts a task in a free tree, and
\* only the end of a task frees the tree (queue_manager.py:271-330).
TurnsAreSerial == \A m, n \in Live : m = n

\* "Per-tree queue ensures ordered processing" (handler.py:47): two tasks of a
\* tree never talk to their CLI at once.  A global /stop resets the tree while
\* its task is still cleaning up; that task then starts a second turn.
OneConversation == \A m, n \in Conversing : m = n

\* A busy tree has a task that will hand it over: cancel_tree, which resets the
\* tree under a task that is still alive, leaves no dead tree behind.
ProcessingMeansWorking == is_processing => Live # {}

\* A PENDING node is never forgotten by the queue: it waits in it or its task
\* is about to start, whatever was cancelled, failed or cleared around it.
PendingIsScheduled ==
    in_repo => \A n \in nodes :
        state[n] = "pending" => n \in ToSet(queue) \/ task[n] = "created"

\* A reply admitted while its branch is being cleared never leaves an orphan:
\* remove_branch takes the descendants that exist by then (data.py:454-482).
TreeIsClosed ==
    /\ Root \in nodes
    /\ \A n \in nodes \ {Root} : parent[n] \in nodes

\* A node the user stopped stays in ERROR: no late event of its CLI process
\* overwrites the state that cancel_node set (queue_manager.py:608).
StoppedStaysStopped == \A n \in stopped : state[n] = "error"

\* The store holds what the tree holds, and nothing once the tree is cleared:
\* no late save_tree brings a cleared conversation back after a restart.
StoreMirrorsTree == stored = IF in_repo THEN nodes ELSE {}

\* Every PENDING message of a tree that is not cleared is started, failed or
\* cancelled at last: the queue is always drained by somebody.
PendingIsDealtWith ==
    \A n \in Node :
        (n \in nodes /\ state[n] = "pending") ~> (state[n] # "pending" \/ ~in_repo)

\* Turns are taken one at a time, each message at most once, in the order of
\* admission: the abstract specification of the queue.
Turn == INSTANCE Turns WITH Message <- Node, waiting <- queue, active <- Live,
                            served <- {n \in Node : task[n] # "none"}
TakesTurns == Turn!Spec

\* No node is both waiting and forgotten, and no parent is missing
\* (trees/data.py: MessageTree; queue_manager.py: enqueue, cancel_branch).
TreeIsSound == TypeOK /\ PendingIsScheduled /\ TreeIsClosed
=============================================================================

-------------------------- MODULE MessageTree_proofs --------------------------
(***************************************************************************)
(* Proofs about the message tree, for every set of messages and every      *)
(* shape of conversation, as long as no command without a reply is given   *)
(* (a global /stop breaks TurnsAreSerial and even OneConversation).        *)
(***************************************************************************)
EXTENDS MessageTree, Queues_proofs, TLAPS

ReplyCommandsOnly == Commands \cap {"stop_all", "clear_all"} = {}

\* The variables the proofs look into; the queue may hold anything.
Shape ==
    /\ nodes \subseteq Node
    /\ current_task \in Node \cup {None}
    /\ clearing \in Node \cup {None}
    /\ task \in [Node -> Suspended \cup {"none", "created", "done"}]
    /\ must_cancel \in [Node -> BOOLEAN]
    /\ global_cmd = "idle"

\* Only the current task is alive, a free tree has none, and a cleared tree has
\* an empty queue, so that the end of its last task starts nothing.
OneTask ==
    /\ Live \subseteq {current_task}
    /\ in_repo /\ ~is_processing => Live = {}
    /\ ~in_repo => queue = <<>>

\* Whatever is left alive of a cleared tree has its cancellation coming.
ClearedIsDying ==
    ~in_repo =>
        /\ Conversing = {}
        /\ \A n \in Node : task[n] = "created" => must_cancel[n]

StoreInv == Shape /\ OneTask /\ ClearedIsDying /\ StoreMirrorsTree

LEMMA InitStoreInv == Init => StoreInv
<1> SUFFICES ASSUME Init PROVE StoreInv
  OBVIOUS
<1> USE TreeAssumption DEF Init
<1>1. Shape
  BY DEF Shape, Suspended
<1>2. OneTask
  BY DEF OneTask, Live, Suspended
<1>3. ClearedIsDying /\ StoreMirrorsTree
  BY DEF ClearedIsDying, StoreMirrorsTree
<1> QED
  BY <1>1, <1>2, <1>3 DEF StoreInv

\* The end of a task: it dies, and at most the node it takes from the queue
\* comes alive; that needs a tree, since a cleared tree has an empty queue.
LEMMA ProcessNextStoreInv ==
    ASSUME StoreInv, NEW n \in Live, ProcessNext(n),
           UNCHANGED <<nodes, in_repo, stored, clearing, global_cmd>>
    PROVE  StoreInv'
<1> USE DEF StoreInv
<1>1. task' \in [Node -> Suspended \cup {"none", "created", "done"}]
  BY DEF ProcessNext, Shape, Live
<1>2. must_cancel' \in [Node -> BOOLEAN]
  BY DEF ProcessNext, Shape
<1>3. current_task' \in Node \cup {None}
  BY DEF ProcessNext, Shape
<1>4. Shape'
  BY <1>1, <1>2, <1>3 DEF Shape
<1>5. Live = {n} /\ n \in Node
  BY DEF OneTask, Live
<1>6. CASE queue = <<>>
  <2>1. task' = [task EXCEPT ![n] = "done"] /\ queue' = <<>> /\ current_task' = current_task
    BY <1>6 DEF ProcessNext
  <2>2. \A m \in Node : m # n => task'[m] = task[m]
    BY <2>1 DEF Shape
  <2>3. task'[n] = "done"
    BY <2>1, <1>5 DEF Shape
  <2>4. Live' = {}
    BY <2>2, <2>3, <1>5 DEF Live, Suspended
  <2>5. OneTask'
    BY <2>1, <2>4 DEF OneTask
  <2>6. ClearedIsDying'
    BY <2>4 DEF ClearedIsDying, Live, Conversing, Suspended
  <2> QED
    BY <1>4, <2>5, <2>6 DEF StoreMirrorsTree
<1>7. CASE queue # <<>>
  <2>1. in_repo
    BY <1>7 DEF OneTask
  <2>2. is_processing'
    BY <1>7 DEF ProcessNext
  <2>3. Live' \subseteq {current_task'}
    <3>1. CASE Head(queue) \in nodes
      <4>1. /\ task' = [task EXCEPT ![n] = "done", ![Head(queue)] = "created"]
            /\ current_task' = Head(queue)
        BY <1>7, <3>1 DEF ProcessNext
      <4>2. \A m \in Node : m # n /\ m # Head(queue) => task'[m] = task[m]
        BY <4>1 DEF Shape
      <4>3. n # Head(queue) => task'[n] = "done"
        BY <4>1, <1>5, <3>1 DEF Shape
      <4> QED
        BY <4>1, <4>2, <4>3, <1>5 DEF Live, Suspended
    <3>2. CASE Head(queue) \notin nodes
      <4>1. task' = [task EXCEPT ![n] = "done"]
        BY <1>7, <3>2 DEF ProcessNext
      <4> QED
        BY <4>1, <1>5 DEF Live, Suspended, Shape
    <3> QED
      BY <3>1, <3>2
  <2> QED
    BY <1>4, <2>1, <2>2, <2>3 DEF OneTask, ClearedIsDying, StoreMirrorsTree
<1> QED
  BY <1>6, <1>7

\* A task that may talk to its process goes on; so its tree is not cleared.
LEMMA TalkingStoreInv ==
    ASSUME StoreInv, NEW n \in Live, NEW s \in Suspended,
           n \in Conversing \/ (task[n] = "created" /\ ~must_cancel[n]),
           task' = [task EXCEPT ![n] = s],
           stored' \in {stored, nodes},
           UNCHANGED <<nodes, in_repo, clearing, global_cmd, must_cancel,
                       queue, is_processing, current_node_id, current_task>>
    PROVE  StoreInv'
<1> USE DEF StoreInv
<1>1. n \in Node /\ task \in [Node -> Suspended \cup {"none", "created", "done"}]
  BY DEF Live, Shape
<1>2. in_repo
  BY <1>1 DEF ClearedIsDying
<1>3. Shape'
  BY <1>1 DEF Shape
<1>4. Live' \subseteq Live
  BY <1>1 DEF Live, Suspended
<1> QED
  BY <1>2, <1>3, <1>4 DEF OneTask, ClearedIsDying, StoreMirrorsTree

\* A cancelled task goes towards its end and saves nothing.
LEMMA DyingStoreInv ==
    ASSUME StoreInv, NEW n \in Live,
           \/ task' = [task EXCEPT ![n] = "unwind"]
           \/ task' = [task EXCEPT ![n] = "cleanup"]
           \/ task' = [task EXCEPT ![n] = "done"],
           must_cancel' = [must_cancel EXCEPT ![n] = FALSE],
           UNCHANGED <<nodes, in_repo, stored, clearing, global_cmd,
                       queue, is_processing, current_node_id, current_task>>
    PROVE  StoreInv'
<1> USE DEF StoreInv
<1>1. n \in Node /\ task \in [Node -> Suspended \cup {"none", "created", "done"}]
  BY DEF Live, Shape
<1>2. Shape'
  BY <1>1 DEF Shape, Suspended
<1>3. /\ task'[n] \in {"unwind", "cleanup", "done"}
      /\ \A m \in Node : m # n => task'[m] = task[m] /\ must_cancel'[m] = must_cancel[m]
  BY <1>1 DEF Shape
<1>4. OneTask'
  BY <1>3 DEF OneTask, Live
<1>5. ClearedIsDying'
  BY <1>3 DEF ClearedIsDying, Conversing
<1> QED
  BY <1>2, <1>4, <1>5 DEF StoreMirrorsTree

\* Every step of the task of n is of one of these two kinds.
LEMMA TaskStoreInv ==
    ASSUME StoreInv, NEW n \in Node, TaskStep(n) \/ CliStep(n) \/ CliExit(n)
    PROVE  StoreInv'
<1> USE DEF treeVars, queueVars, taskVars, cmdVars
<1>1. CASE Start(n)
  <2>1. n \in Live /\ task[n] = "created" /\ ~must_cancel[n]
    BY <1>1 DEF Start, Live
  <2> QED
    BY <1>1, <2>1, TalkingStoreInv DEF Start, Suspended
<1>2. CASE Skip(n)
  <2>1. n \in Live
    BY <1>2 DEF Skip, Live
  <2> QED
    BY <1>2, <2>1, ProcessNextStoreInv DEF Skip
<1>3. CASE DieBeforeStart(n)
  <2>1. n \in Live
    BY <1>3 DEF DieBeforeStart, Live
  <2> QED
    BY <1>3, <2>1, DyingStoreInv DEF DieBeforeStart
<1>4. CASE SessionReady(n)
  <2>1. n \in Live /\ n \in Conversing
    BY <1>4 DEF SessionReady, Live, Conversing, Suspended
  <2> QED
    BY <1>4, <2>1, TalkingStoreInv DEF SessionReady, Suspended
<1>5. CASE Registered(n)
  <2>1. n \in Live /\ n \in Conversing
    BY <1>5 DEF Registered, Live, Conversing, Suspended
  <2> QED
    BY <1>5, <2>1, TalkingStoreInv DEF Registered, Suspended
<1>6. CASE Unwind(n)
  <2>1. n \in Live
    BY <1>6 DEF Unwind, Live, Suspended
  <2> QED
    BY <1>6, <2>1, DyingStoreInv DEF Unwind
<1>7. CASE Cancelled(n)
  <2>1. n \in Live
    BY <1>7 DEF Cancelled, Live, Suspended
  <2> QED
    BY <1>7, <2>1, DyingStoreInv DEF Cancelled
<1>8. CASE CancelledEarly(n)
  <2>1. n \in Live
    BY <1>8 DEF CancelledEarly, Live, Suspended
  <2> QED
    BY <1>8, <2>1, ProcessNextStoreInv DEF CancelledEarly
<1>9. CASE Finish(n)
  <2>1. n \in Live
    BY <1>9 DEF Finish, Live, Suspended
  <2> QED
    BY <1>9, <2>1, ProcessNextStoreInv DEF Finish
<1>10. CASE SessionInfo(n)
  <2>1. n \in Live /\ n \in Conversing
    BY <1>10 DEF SessionInfo, Live, Conversing, Suspended
  <2> QED
    BY <1>10, <2>1, TalkingStoreInv DEF SessionInfo, Suspended
<1>11. CASE ErrorEvent(n)
  BY <1>11 DEF ErrorEvent, StoreInv, Shape, OneTask, ClearedIsDying, StoreMirrorsTree, Live, Conversing
<1>12. CASE Crash(n)
  <2>1. n \in Live /\ n \in Conversing
    BY <1>12 DEF Crash, Live, Conversing, Suspended
  <2> QED
    BY <1>12, <2>1, TalkingStoreInv DEF Crash, Suspended
<1>13. ASSUME NEW code \in {0, 1}, Exit(n, code) PROVE StoreInv'
  <2>1. n \in Live /\ n \in Conversing
    BY <1>13 DEF Exit, Live, Conversing, Suspended
  <2> QED
    BY <1>13, <2>1, TalkingStoreInv DEF Exit, Suspended
<1> QED
  BY <1>1, <1>2, <1>3, <1>4, <1>5, <1>6, <1>7, <1>8, <1>9, <1>10, <1>11, <1>12, <1>13
     DEF TaskStep, CliStep, CliExit

\* A reply is admitted only into a tree that is still in the repository; it gets
\* a task of its own only when the tree is free.
LEMMA AdmitStoreInv ==
    ASSUME StoreInv, NEW n \in Node, Admit(n)
    PROVE  StoreInv'
<1> USE DEF StoreInv, queueVars, cmdVars
<1>1. in_repo /\ in_repo' /\ stored' = nodes' /\ nodes' = nodes \cup {n}
  BY DEF Admit, Found
<1>2. ClearedIsDying' /\ StoreMirrorsTree'
  BY <1>1 DEF ClearedIsDying, StoreMirrorsTree
<1>3. CASE is_processing
  <2>1. UNCHANGED <<is_processing, current_node_id, current_task, task, must_cancel, clearing, global_cmd>>
    BY <1>3 DEF Admit, EnqueueAndStart
  <2> QED
    BY <2>1, <1>1, <1>2, <1>3 DEF Shape, OneTask, Live
<1>4. CASE ~is_processing
  <2>1. /\ is_processing' = TRUE /\ current_task' = n /\ task' = [task EXCEPT ![n] = "created"]
        /\ UNCHANGED <<must_cancel, clearing, global_cmd>>
    BY <1>4 DEF Admit, EnqueueAndStart
  <2>2. task \in [Node -> Suspended \cup {"none", "created", "done"}] /\ Live = {}
    BY <1>1, <1>4 DEF Shape, OneTask
  <2>3. Live' \subseteq {n}
    BY <2>1, <2>2 DEF Live
  <2> QED
    BY <2>1, <2>2, <2>3, <1>1, <1>2 DEF Shape, OneTask
<1> QED
  BY <1>3, <1>4

\* Cancelling the current task leaves every task where it is suspended.
LEMMA CancelProperties ==
    ASSUME Shape, OneTask, CancelCurrentTask
    PROVE  /\ must_cancel' \in [Node -> BOOLEAN]
           /\ \A n \in Node : must_cancel[n] => must_cancel'[n]
           /\ \A n \in Live : must_cancel'[n]
  BY DEF CancelCurrentTask, Shape, OneTask, Live

\* The commands that are replies.
LEMMA CommandStoreInv ==
    ASSUME StoreInv,
           \/ \E n \in Node : Stop(n) \/ ClearBegin(n)
           \/ ClearBranch
           \/ ClearRoot
    PROVE  StoreInv'
<1> USE DEF StoreInv, queueVars, taskVars, cmdVars
<1>1. ASSUME NEW n \in Node, Stop(n) PROVE StoreInv'
  <2>1. in_repo /\ in_repo' /\ stored' = nodes /\ nodes' = nodes
    BY <1>1 DEF Stop, Found
  <2>2. must_cancel' \in [Node -> BOOLEAN]
    BY <1>1, CancelProperties DEF Stop, Shape
  <2> QED
    BY <1>1, <2>1, <2>2 DEF Stop, Shape, OneTask, ClearedIsDying, StoreMirrorsTree, Live
<1>2. ASSUME NEW b \in Node, ClearBegin(b) PROVE StoreInv'
  <2>1. in_repo /\ in_repo' /\ stored' \in {stored, nodes} /\ nodes' = nodes
    BY <1>2 DEF ClearBegin, Found
  <2>2. must_cancel' \in [Node -> BOOLEAN]
    BY <1>2, CancelProperties DEF ClearBegin, Shape
  <2> QED
    BY <1>2, <2>1, <2>2 DEF ClearBegin, Shape, OneTask, ClearedIsDying, StoreMirrorsTree, Live
<1>3. CASE ClearBranch
  <2>1. /\ nodes' \subseteq nodes /\ clearing' = None
        /\ (stored' = nodes' /\ in_repo) \/ UNCHANGED <<nodes, stored>>
    BY <1>3 DEF ClearBranch, Found
  <2> QED
    BY <1>3, <2>1 DEF ClearBranch, Shape, OneTask, ClearedIsDying, StoreMirrorsTree, Live, Conversing
<1>4. CASE ClearRoot
  <2>1. CASE Found(Root)
    <3>1. /\ CancelCurrentTask /\ queue' = <<>> /\ in_repo' = FALSE /\ stored' = {}
          /\ clearing' = None
          /\ UNCHANGED <<task, current_task, nodes, global_cmd>>
      BY <1>4, <2>1 DEF ClearRoot, CancelTree
    <3>2. /\ must_cancel' \in [Node -> BOOLEAN]
          /\ \A n \in Live : must_cancel'[n]
      BY <3>1, CancelProperties
    <3>3. Shape'
      BY <3>1, <3>2 DEF Shape
    <3>4. OneTask'
      BY <3>1 DEF OneTask, Live
    <3>5. ClearedIsDying'
      BY <3>1, <3>2 DEF ClearedIsDying, Conversing, Live, Suspended
    <3> QED
      BY <3>1, <3>3, <3>4, <3>5 DEF StoreMirrorsTree
  <2>2. CASE ~Found(Root)
    BY <1>4, <2>2 DEF ClearRoot, Shape, OneTask, ClearedIsDying, StoreMirrorsTree, Live, Conversing
  <2> QED
    BY <2>1, <2>2
<1> QED
  BY <1>1, <1>2, <1>3, <1>4

LEMMA NextStoreInv ==
    ASSUME ReplyCommandsOnly, StoreInv, [Next]_vars
    PROVE  StoreInv'
<1> USE DEF treeVars, queueVars, taskVars, cmdVars
<1>1. ASSUME NEW n \in Node, NEW p \in Node, Arrive(n, p) PROVE StoreInv'
  BY <1>1 DEF Arrive, StoreInv, Shape, OneTask, ClearedIsDying, StoreMirrorsTree, Live, Conversing
<1>2. ASSUME NEW n \in Node, Reject(n) PROVE StoreInv'
  BY <1>2 DEF Reject, StoreInv, Shape, OneTask, ClearedIsDying, StoreMirrorsTree, Live, Conversing
<1>3. CASE UNCHANGED vars
  BY <1>3 DEF vars, StoreInv, Shape, OneTask, ClearedIsDying, StoreMirrorsTree, Live, Conversing
<1>4. ~StopAll /\ ~ClearAll
  BY DEF StopAll, ClearAll, StopAllBegin, ReplyCommandsOnly
<1>5. ~StopAllKilled /\ ~ClearAllEnd
  BY DEF StopAllKilled, ClearAllEnd, StoreInv, Shape
<1>6. CASE \E n \in Node : HandlerStep(n)
  BY <1>2, <1>6, AdmitStoreInv DEF HandlerStep
<1>7. CASE UserStep \/ CommandStep
  BY <1>1, <1>4, <1>5, <1>7, CommandStoreInv DEF UserStep, CommandStep
<1> QED
  BY <1>3, <1>6, <1>7, TaskStoreInv DEF Next

LEMMA StoreInvariance ==
    ASSUME ReplyCommandsOnly
    PROVE  Spec => []StoreInv
<1>1. Init => StoreInv
  BY InitStoreInv
<1>2. StoreInv /\ [Next]_vars => StoreInv'
  BY NextStoreInv
<1> QED
  BY <1>1, <1>2, PTL DEF Spec

\* Without a global command at most one task of a tree is alive, whatever is
\* admitted, stopped, cleared, cancelled or fails, for trees of any size
\* (queue_manager.py:271-330).
THEOREM Serial ==
    ASSUME ReplyCommandsOnly
    PROVE  Spec => []TurnsAreSerial
<1>1. StoreInv => TurnsAreSerial
  BY DEF StoreInv, OneTask, TurnsAreSerial
<1> QED
  BY <1>1, StoreInvariance, PTL

\* A cleared conversation never comes back from the store: whatever is still
\* running of it saves nothing any more (session.py:243-286).
THEOREM StoreMirrors ==
    ASSUME ReplyCommandsOnly
    PROVE  Spec => []StoreMirrorsTree
<1>1. StoreInv => StoreMirrorsTree
  BY DEF StoreInv
<1> QED
  BY <1>1, StoreInvariance, PTL
-----------------------------------------------------------------------------
(* A stopped message stays stopped.  It is enough that whoever may still talk *)
(* to a process is the current node, so that the command finds its task.      *)

Talking(n) == n \in Conversing \/ (task[n] = "created" /\ ~must_cancel[n])

States == [Node -> Active \cup Finished \cup {"absent"}]

StopShape ==
    /\ state \in States
    /\ arrival \in [Node -> {"unsent", "sending", "admitted", "rejected"}]
    /\ stopped \subseteq Node
    /\ \A n \in nodes : arrival[n] = "admitted"

\* A task that may talk is the one a command cancels.
CurrentTalks == \A n \in Node : Talking(n) => current_node_id = n

\* A stopped node is in ERROR, is never admitted again and has nobody who could
\* move it out of ERROR.
StoppedAreSilent ==
    \A n \in stopped : state[n] = "error" /\ arrival[n] = "admitted" /\ n \notin Conversing

StopInv == StopShape /\ CurrentTalks /\ StoppedAreSilent

\* What a step may do to the states of nodes nobody talks for.
OnlyErrors(S) == state' \in States /\ \A m \in S : state'[m] \in {state[m], "error"}

LEMMA InitStopInv == Init => StopInv
<1> SUFFICES ASSUME Init PROVE StopInv
  OBVIOUS
<1> USE TreeAssumption DEF Init
<1>1. StopShape
  BY DEF StopShape, States, Active
<1>2. CurrentTalks /\ StoppedAreSilent
  BY DEF CurrentTalks, StoppedAreSilent, Talking, Conversing
<1> QED
  BY <1>1, <1>2 DEF StopInv

\* Setting nodes to ERROR, failing a node and its pending children, and updating
\* one node.
LEMMA SetStateErrors ==
    ASSUME state \in States, NEW S
    PROVE  /\ SetState(S, "error") \in States
           /\ \A m \in Node : SetState(S, "error")[m] = IF m \in S THEN "error" ELSE state[m]
  BY DEF SetState, States, Finished

LEMMA MarkErrors ==
    ASSUME state \in States, NEW n \in Node
    PROVE  /\ MarkNodeError(n) \in States
           /\ \A m \in Node : MarkNodeError(n)[m] \in {state[m], "error"}
<1> DEFINE S == {n} \cup PendingChildren(n)
<1>1. MarkNodeError(n) \in {SetState(S, "error"), state}
  BY DEF MarkNodeError
<1>2. /\ SetState(S, "error") \in States
      /\ \A m \in Node : SetState(S, "error")[m] = IF m \in S THEN "error" ELSE state[m]
  BY SetStateErrors
<1> HIDE DEF S
<1> QED
  BY <1>1, <1>2

LEMMA UpdateErrors ==
    ASSUME state \in States, NEW n \in Node, NEW s \in Active \cup Finished
    PROVE  /\ UpdateState(n, s) \in States
           /\ \A m \in Node \ {n} : UpdateState(n, s)[m] = state[m]
           /\ UpdateState(n, s)[n] \in {state[n], s}
  BY DEF UpdateState, States

\* The end of a task starts at most the head of the queue, as the current node.
LEMMA ProcessNextStopInv ==
    ASSUME StoreInv, StopInv, NEW n \in Live, ProcessNext(n), OnlyErrors(Node),
           UNCHANGED <<nodes, arrival, stopped>>
    PROVE  StopInv'
<1> USE DEF StopInv
<1>1. /\ task \in [Node -> Suspended \cup {"none", "created", "done"}]
      /\ n \in Node
      /\ \A m \in Node \ {n} : m \notin Live
  BY DEF StoreInv, Shape, OneTask, Live
<1>2. \A m \in Node : task'[m] \in Suspended \cup {"created"} => m = current_node_id' /\ task'[m] = "created"
  <2>1. CASE queue = <<>>
    <3>1. task' = [task EXCEPT ![n] = "done"]
      BY <2>1 DEF ProcessNext
    <3> QED
      BY <3>1, <1>1 DEF Live, Suspended
  <2>2. CASE queue # <<>> /\ Head(queue) \in nodes
    <3>1. /\ task' = [task EXCEPT ![n] = "done", ![Head(queue)] = "created"]
          /\ current_node_id' = Head(queue)
      BY <2>2 DEF ProcessNext
    <3> QED
      BY <3>1, <1>1 DEF Live, Suspended
  <2>3. CASE queue # <<>> /\ Head(queue) \notin nodes
    <3>1. task' = [task EXCEPT ![n] = "done"]
      BY <2>3 DEF ProcessNext
    <3> QED
      BY <3>1, <1>1 DEF Live, Suspended
  <2> QED
    BY <2>1, <2>2, <2>3
<1>3. CurrentTalks' /\ Conversing' = {}
  BY <1>2 DEF CurrentTalks, Talking, Conversing, Suspended
<1>4. StopShape'
  BY DEF StopShape, OnlyErrors
<1>5. StoppedAreSilent'
  BY <1>3 DEF StoppedAreSilent, StopShape, OnlyErrors
<1> QED
  BY <1>3, <1>4, <1>5

\* A task that may talk is not a stopped node's and changes its own state at will.
LEMMA TalkingStopInv ==
    ASSUME StoreInv, StopInv, NEW n \in Node, NEW s \in Suspended,
           n \in Conversing \/ (task[n] = "created" /\ ~must_cancel[n] /\ state[n] # "error"),
           task' = [task EXCEPT ![n] = s],
           OnlyErrors(Node \ {n}),
           UNCHANGED <<nodes, arrival, stopped, must_cancel, current_node_id>>
    PROVE  StopInv'
<1> USE DEF StopInv
<1>1. task \in [Node -> Suspended \cup {"none", "created", "done"}]
  BY DEF StoreInv, Shape
<1>2. n \notin stopped /\ Talking(n)
  BY DEF StoppedAreSilent, Talking
<1>3. \A m \in Node \ {n} : task'[m] = task[m]
  BY <1>1
<1>4. CurrentTalks'
  BY <1>2, <1>3 DEF CurrentTalks, Talking, Conversing
<1>5. StopShape'
  BY DEF StopShape, OnlyErrors
<1>6. StoppedAreSilent'
  BY <1>2, <1>3 DEF StoppedAreSilent, StopShape, OnlyErrors, Conversing
<1> QED
  BY <1>4, <1>5, <1>6

\* A task on its way to its end talks no more.
LEMMA DyingStopInv ==
    ASSUME StoreInv, StopInv, NEW n \in Node, NEW s \in {"unwind", "cleanup", "done"},
           task' = [task EXCEPT ![n] = s],
           must_cancel' = [must_cancel EXCEPT ![n] = FALSE],
           OnlyErrors(Node),
           UNCHANGED <<nodes, arrival, stopped, current_node_id>>
    PROVE  StopInv'
<1> USE DEF StopInv
<1>1. /\ task \in [Node -> Suspended \cup {"none", "created", "done"}]
      /\ must_cancel \in [Node -> BOOLEAN]
  BY DEF StoreInv, Shape
<1>2. /\ task'[n] \in {"unwind", "cleanup", "done"}
      /\ \A m \in Node \ {n} : task'[m] = task[m] /\ must_cancel'[m] = must_cancel[m]
  BY <1>1
<1>3. CurrentTalks'
  BY <1>2 DEF CurrentTalks, Talking, Conversing
<1>4. StopShape'
  BY DEF StopShape, OnlyErrors
<1>5. StoppedAreSilent'
  BY <1>2 DEF StoppedAreSilent, StopShape, OnlyErrors, Conversing
<1> QED
  BY <1>3, <1>4, <1>5

LEMMA TaskStopInv ==
    ASSUME StoreInv, StopInv, NEW n \in Node, TaskStep(n) \/ CliStep(n) \/ CliExit(n)
    PROVE  StopInv'
<1> USE DEF treeVars, queueVars, taskVars, cmdVars
<1>0. StopShape /\ state \in States
  BY DEF StopInv, StopShape
<1>1. CASE Start(n)
  BY <1>0, <1>1, TalkingStopInv DEF Start, OnlyErrors, States, Active, Suspended
<1>2. CASE Skip(n)
  <2>1. n \in Live /\ OnlyErrors(Node)
    BY <1>0, <1>2 DEF Skip, Live, OnlyErrors
  <2> QED
    BY <1>2, <2>1, ProcessNextStopInv DEF Skip
<1>3. CASE DieBeforeStart(n)
  BY <1>0, <1>3, DyingStopInv DEF DieBeforeStart, OnlyErrors
<1>4. CASE SessionReady(n)
  BY <1>0, <1>4, TalkingStopInv DEF SessionReady, OnlyErrors, Conversing, Suspended
<1>5. CASE Registered(n)
  <2>1. OnlyErrors(Node \ {n})
    BY <1>0, <1>5, UpdateErrors DEF Registered, OnlyErrors, Active
  <2> QED
    BY <1>5, <2>1, TalkingStopInv DEF Registered, Conversing, Suspended
<1>6. CASE Unwind(n)
  BY <1>0, <1>6, DyingStopInv DEF Unwind, OnlyErrors
<1>7. CASE Cancelled(n)
  <2>1. OnlyErrors(Node)
    BY <1>0, <1>7, UpdateErrors DEF Cancelled, OnlyErrors, Finished
  <2> QED
    BY <1>7, <2>1, DyingStopInv DEF Cancelled
<1>8. CASE CancelledEarly(n)
  <2>1. n \in Live /\ OnlyErrors(Node)
    BY <1>0, <1>8, UpdateErrors DEF CancelledEarly, OnlyErrors, Finished, Live, Suspended
  <2> QED
    BY <1>8, <2>1, ProcessNextStopInv DEF CancelledEarly
<1>9. CASE Finish(n)
  <2>1. n \in Live /\ OnlyErrors(Node)
    BY <1>0, <1>9 DEF Finish, Live, Suspended, OnlyErrors
  <2> QED
    BY <1>9, <2>1, ProcessNextStopInv DEF Finish
<1>10. CASE SessionInfo(n)
  BY <1>0, <1>10, TalkingStopInv DEF SessionInfo, OnlyErrors, Conversing, Suspended
<1>11. CASE ErrorEvent(n)
  <2>1. OnlyErrors(Node)
    BY <1>0, <1>11, MarkErrors DEF ErrorEvent, OnlyErrors
  <2> QED
    BY <1>11, <2>1 DEF ErrorEvent, OnlyErrors, StopInv, StopShape, CurrentTalks,
                       StoppedAreSilent, Talking, Conversing
<1>12. CASE Crash(n)
  <2>1. OnlyErrors(Node \ {n})
    BY <1>0, <1>12, MarkErrors DEF Crash, OnlyErrors
  <2> QED
    BY <1>12, <2>1, TalkingStopInv DEF Crash, Conversing, Suspended
<1>13. ASSUME NEW code \in {0, 1}, Exit(n, code) PROVE StopInv'
  <2> DEFINE afterError == IF code = 0 THEN state ELSE MarkNodeError(n)
  <2>1. afterError \in States /\ \A m \in Node : afterError[m] \in {state[m], "error"}
    BY <1>0, MarkErrors
  <2>2. state' \in {afterError, [afterError EXCEPT ![n] = "completed"]}
    BY <1>13 DEF Exit
  <2> HIDE DEF afterError
  <2>3. OnlyErrors(Node \ {n})
    BY <2>1, <2>2 DEF OnlyErrors, States, Finished
  <2> QED
    BY <1>13, <2>3, TalkingStopInv DEF Exit, Conversing, Suspended
<1> QED
  BY <1>1, <1>2, <1>3, <1>4, <1>5, <1>6, <1>7, <1>8, <1>9, <1>10, <1>11, <1>12, <1>13
     DEF TaskStep, CliStep, CliExit

\* A message is admitted once, so a stopped one never becomes PENDING again.
LEMMA AdmitStopInv ==
    ASSUME StoreInv, StopInv, NEW n \in Node, Admit(n)
    PROVE  StopInv'
<1> USE DEF StopInv, cmdVars
<1>1. n \notin stopped
  BY DEF Admit, StoppedAreSilent
<1>2. StopShape'
  BY DEF Admit, StopShape, States, Active
<1>3. CurrentTalks' /\ Conversing' \subseteq Conversing
  <2>1. CASE is_processing
    BY <2>1 DEF Admit, EnqueueAndStart, CurrentTalks, Talking, Conversing
  <2>2. CASE ~is_processing
    <3>1. /\ task' = [task EXCEPT ![n] = "created"] /\ current_node_id' = n
          /\ must_cancel' = must_cancel
      BY <2>2 DEF Admit, EnqueueAndStart
    <3>2. task \in [Node -> Suspended \cup {"none", "created", "done"}] /\ Live = {}
      BY <2>2 DEF StoreInv, Shape, OneTask, Admit, Found
    <3>3. \A m \in Node \ {n} : task'[m] = task[m] /\ task[m] \notin Suspended \cup {"created"}
      BY <3>1, <3>2 DEF Live
    <3>4. task'[n] = "created"
      BY <3>1, <3>2
    <3> QED
      BY <3>1, <3>3, <3>4 DEF CurrentTalks, Talking, Conversing, Suspended
  <2> QED
    BY <2>1, <2>2
<1>4. StoppedAreSilent'
  BY <1>1, <1>3 DEF Admit, StoppedAreSilent, StopShape, States
<1> QED
  BY <1>2, <1>3, <1>4

\* A command that moves nodes to ERROR silences the one of them that may talk.
LEMMA StoppingStopInv ==
    ASSUME StoreInv, StopInv, NEW S \in SUBSET nodes,
           OnlyErrors(Node), \A m \in S : state'[m] = "error",
           stopped' = stopped \cup S,
           must_cancel' \in [Node -> BOOLEAN],
           \A m \in Node : must_cancel[m] => must_cancel'[m],
           current_node_id \in S => \A m \in Live : must_cancel'[m],
           current_node_id' = current_node_id \/ \A m \in Live : must_cancel'[m],
           UNCHANGED <<nodes, arrival, task>>
    PROVE  StopInv'
<1> USE DEF StopInv
<1>1. Conversing' \subseteq Conversing /\ \A m \in Node : Talking(m)' => Talking(m)
  BY DEF Conversing, Talking, StoreInv, Shape
<1>2. \A m \in Node : Talking(m)' => m \in Live /\ ~must_cancel'[m]
  BY DEF Talking, Conversing, Live, Suspended
<1>3. CurrentTalks'
  BY <1>1, <1>2 DEF CurrentTalks
<1>4. S \subseteq Node /\ \A m \in S : arrival[m] = "admitted"
  BY DEF StopShape, StoreInv, Shape
<1>5. StopShape'
  BY <1>4 DEF StopShape, OnlyErrors
<1>6. \A m \in S : m \notin Conversing'
  <2> SUFFICES ASSUME NEW m \in S, m \in Conversing' PROVE FALSE
    OBVIOUS
  <2>1. Talking(m)' /\ m \in Node
    BY <1>4 DEF Talking
  <2>2. current_node_id = m
    BY <1>1, <2>1 DEF CurrentTalks
  <2> QED
    BY <1>2, <2>1, <2>2
<1>7. StoppedAreSilent'
  BY <1>1, <1>4, <1>6 DEF StoppedAreSilent, StopShape, OnlyErrors
<1> QED
  BY <1>3, <1>5, <1>7

LEMMA CommandStopInv ==
    ASSUME StoreInv, StopInv,
           \/ \E n \in Node : Stop(n) \/ ClearBegin(n)
           \/ ClearBranch
           \/ ClearRoot
    PROVE  StopInv'
<1> USE DEF queueVars, taskVars, cmdVars
<1>0. /\ Shape /\ OneTask /\ StopShape
      /\ must_cancel \in [Node -> BOOLEAN] /\ state \in States /\ nodes \subseteq Node
  BY DEF StoreInv, StopInv, Shape, StopShape
<1>1. ASSUME NEW n \in Node, Stop(n) PROVE StopInv'
  <2> DEFINE hit == {n}
  <2>1. hit \in SUBSET nodes /\ stopped' = stopped \cup hit
    BY <1>1 DEF Stop
  <2>2. OnlyErrors(Node) /\ \A m \in hit : state'[m] = "error"
    BY <1>0, <1>1, SetStateErrors DEF Stop, OnlyErrors
  <2>3. /\ must_cancel' \in [Node -> BOOLEAN]
        /\ \A m \in Node : must_cancel[m] => must_cancel'[m]
        /\ current_node_id \in hit => \A m \in Live : must_cancel'[m]
    BY <1>0, <1>1, CancelProperties DEF Stop
  <2>4. UNCHANGED <<nodes, arrival, task, current_node_id>>
    BY <1>1 DEF Stop
  <2> HIDE DEF hit
  <2> QED
    BY <2>1, <2>2, <2>3, <2>4, StoppingStopInv
<1>2. ASSUME NEW b \in Node, ClearBegin(b) PROVE StopInv'
  <2> DEFINE hit == {n \in Descendants(b) : state[n] \in Active}
  <2>1. hit \subseteq nodes /\ stopped' = stopped \cup hit
    BY <1>2 DEF ClearBegin, Descendants, Below
  <2>2. OnlyErrors(Node) /\ \A m \in hit : state'[m] = "error"
    <3>1. state' = SetState(hit, "error")
      BY <1>2 DEF ClearBegin
    <3> HIDE DEF hit
    <3> QED
      BY <1>0, <2>1, <3>1, SetStateErrors DEF OnlyErrors
  <2>3. /\ must_cancel' \in [Node -> BOOLEAN]
        /\ \A m \in Node : must_cancel[m] => must_cancel'[m]
        /\ current_node_id \in hit => \A m \in Live : must_cancel'[m]
    <3>1. IF current_node_id \in hit THEN CancelCurrentTask ELSE UNCHANGED must_cancel
      BY <1>2 DEF ClearBegin
    <3> HIDE DEF hit
    <3> QED
      BY <1>0, <3>1, CancelProperties
  <2>4. UNCHANGED <<nodes, arrival, task, current_node_id>>
    BY <1>2 DEF ClearBegin
  <2> HIDE DEF hit
  <2> QED
    BY <2>1, <2>2, <2>3, <2>4, StoppingStopInv
<1>3. CASE ClearBranch
  <2>1. nodes' \subseteq nodes /\ UNCHANGED <<state, arrival, stopped, task, must_cancel, current_node_id>>
    BY <1>3 DEF ClearBranch
  <2> QED
    BY <2>1 DEF StopInv, StopShape, CurrentTalks, StoppedAreSilent, Talking, Conversing
<1>4. CASE ClearRoot
  <2>1. CASE Found(Root)
    <3> DEFINE hit == {n \in nodes : state[n] \in Active}
    <3>1. /\ CancelCurrentTask
          /\ state' = SetState(hit \cup (ToSet(queue) \cap nodes), "error")
          /\ stopped' = stopped \cup hit
          /\ UNCHANGED <<nodes, arrival, task>>
      BY <1>4, <2>1 DEF ClearRoot, CancelTree
    <3> HIDE DEF hit
    <3>2. OnlyErrors(Node) /\ \A m \in hit : m \in Node => state'[m] = "error"
      BY <1>0, <3>1, SetStateErrors DEF OnlyErrors
    <3>3. hit \subseteq nodes
      BY DEF hit
    <3> QED
      BY <1>0, <3>1, <3>2, <3>3, CancelProperties, StoppingStopInv
  <2>2. CASE ~Found(Root)
    BY <1>4, <2>2 DEF ClearRoot, StopInv, StopShape, CurrentTalks, StoppedAreSilent, Talking, Conversing
  <2> QED
    BY <2>1, <2>2
<1> QED
  BY <1>1, <1>2, <1>3, <1>4

LEMMA NextStopInv ==
    ASSUME ReplyCommandsOnly, StoreInv, StopInv, [Next]_vars
    PROVE  StopInv'
<1> USE DEF treeVars, queueVars, taskVars, cmdVars
<1>1. ASSUME NEW n \in Node, NEW p \in Node, Arrive(n, p) PROVE StopInv'
  <2>1. n \notin stopped /\ n \notin nodes
    BY <1>1 DEF Arrive, StopInv, StoppedAreSilent, StopShape
  <2> QED
    BY <1>1, <2>1 DEF Arrive, StopInv, StopShape, CurrentTalks, StoppedAreSilent, Talking, Conversing
<1>2. ASSUME NEW n \in Node, Reject(n) PROVE StopInv'
  <2>1. n \notin stopped /\ n \notin nodes
    BY <1>2 DEF Reject, StopInv, StoppedAreSilent, StopShape
  <2> QED
    BY <1>2, <2>1 DEF Reject, StopInv, StopShape, CurrentTalks, StoppedAreSilent, Talking, Conversing
<1>3. CASE UNCHANGED vars
  BY <1>3 DEF vars, StopInv, StopShape, CurrentTalks, StoppedAreSilent, Talking, Conversing
<1>4. ~StopAll /\ ~ClearAll
  BY DEF StopAll, ClearAll, StopAllBegin, ReplyCommandsOnly
<1>5. ~StopAllKilled /\ ~ClearAllEnd
  BY DEF StopAllKilled, ClearAllEnd, StoreInv, Shape
<1>6. CASE \E n \in Node : HandlerStep(n)
  BY <1>2, <1>6, AdmitStopInv DEF HandlerStep
<1>7. CASE UserStep \/ CommandStep
  BY <1>1, <1>4, <1>5, <1>7, CommandStopInv DEF UserStep, CommandStep
<1> QED
  BY <1>3, <1>6, <1>7, TaskStopInv DEF Next

\* Whatever a CLI process still reports, a message that /stop or /clear moved to
\* ERROR stays there: its task has been told to end before the command returns,
\* or never starts (queue_manager.py:554-640).
THEOREM StopsForGood ==
    ASSUME ReplyCommandsOnly
    PROVE  Spec => []StoppedStaysStopped
<1>1. Init => StopInv
  BY InitStopInv
<1>2. StoreInv /\ StopInv /\ [Next]_vars => StopInv'
  BY NextStopInv
<1>3. StopInv => StoppedStaysStopped
  BY DEF StopInv, StoppedAreSilent, StoppedStaysStopped
<1> QED
  BY <1>1, <1>2, <1>3, StoreInvariance, PTL DEF Spec

-----------------------------------------------------------------------------
(* The tree stays closed, under every command: a branch is taken out with     *)
(* everything below it by then.                                               *)

ClosedInv ==
    /\ nodes \subseteq Node
    /\ parent \in [Node -> Node \cup {None}] /\ parent[Root] = None
    /\ arrival \in [Node -> {"unsent", "sending", "admitted", "rejected"}]
    /\ \A n \in nodes : arrival[n] = "admitted"
    /\ TreeIsClosed

\* get_descendants goes all the way down, and not up to the root (data.py:454-482).
LEMMA DescendantsProperties ==
    ASSUME ClosedInv, NEW b, b \notin {None, Root}
    PROVE  /\ Root \notin Descendants(b)
           /\ \A n \in nodes : parent[n] \in Descendants(b) => n \in Descendants(b)
<1>1. Root \notin Below(b, nodes)
  <2> DEFINE S == nodes \ {Root}
  <2>1. S \in SUBSET nodes /\ Root \notin S
    OBVIOUS
  <2>2. None \notin S \cup {b}
    BY TreeAssumption DEF ClosedInv
  <2>3. \A m \in nodes : parent[m] \in S \cup {b} => m \in S
    BY <2>2 DEF ClosedInv
  <2> HIDE DEF S
  <2> QED
    BY <2>1, <2>3 DEF Below
<1>2. ASSUME NEW n \in nodes, parent[n] \in Descendants(b) PROVE n \in Below(b, nodes)
  <2> SUFFICES ASSUME NEW S \in SUBSET nodes,
                      \A m \in nodes : parent[m] \in S \cup {b} => m \in S
               PROVE  n \in S
    BY DEF Below
  <2>1. CASE parent[n] = b
    BY <2>1
  <2>2. CASE parent[n] \in Below(b, nodes)
    <3>1. parent[n] \in S
      BY <2>2 DEF Below
    <3> QED
      BY <3>1
  <2> QED
    BY <1>2, <2>1, <2>2 DEF Descendants
<1> QED
  BY <1>1, <1>2 DEF Descendants

LEMMA NextClosedInv ==
    ASSUME ClosedInv, [Next]_vars
    PROVE  ClosedInv'
<1> USE DEF treeVars, queueVars, taskVars, cmdVars
<1>1. ASSUME NEW n \in Node, NEW p \in Node, Arrive(n, p) PROVE ClosedInv'
  <2>1. n \notin nodes /\ n # Root
    BY <1>1 DEF Arrive, ClosedInv, TreeIsClosed
  <2>2. /\ parent' = [parent EXCEPT ![n] = p] /\ arrival' = [arrival EXCEPT ![n] = "sending"]
        /\ nodes' = nodes
    BY <1>1 DEF Arrive
  <2>3. \A m \in Node \ {n} : parent'[m] = parent[m] /\ arrival'[m] = arrival[m]
    BY <2>2 DEF ClosedInv
  <2> QED
    BY <2>1, <2>2, <2>3, TreeAssumption DEF ClosedInv, TreeIsClosed
<1>2. ASSUME NEW n \in Node, Admit(n) PROVE ClosedInv'
  BY <1>2 DEF Admit, ClosedInv, TreeIsClosed
<1>3. ASSUME NEW n \in Node, Reject(n) PROVE ClosedInv'
  <2>1. n \notin nodes /\ arrival' = [arrival EXCEPT ![n] = "rejected"] /\ UNCHANGED <<nodes, parent>>
    BY <1>3 DEF Reject, ClosedInv
  <2> QED
    BY <2>1 DEF ClosedInv, TreeIsClosed
<1>4. CASE ClearBranch
  <2> DEFINE gone == Descendants(clearing)
  <2>1. clearing \notin {None, Root} /\ UNCHANGED <<parent, arrival>> /\ nodes' \in {nodes, nodes \ gone}
    BY <1>4 DEF ClearBranch
  <2>2. Root \notin gone /\ \A n \in nodes : parent[n] \in gone => n \in gone
    BY <2>1, DescendantsProperties
  <2> HIDE DEF gone
  <2> QED
    BY <2>1, <2>2 DEF ClosedInv, TreeIsClosed
<1>5. CASE UNCHANGED <<nodes, parent, arrival>>
  BY <1>5 DEF ClosedInv, TreeIsClosed
<1>6. ASSUME NEW n \in Node, TaskStep(n) \/ CliStep(n) \/ CliExit(n)
      PROVE  UNCHANGED <<nodes, parent, arrival>>
  BY <1>6 DEF TaskStep, CliStep, CliExit, Start, Skip, DieBeforeStart, SessionReady, Registered, Unwind,
     Cancelled, CancelledEarly, Finish, SessionInfo, ErrorEvent, Crash, Exit
<1>7. ASSUME NEW n \in Node, Stop(n) \/ ClearBegin(n)
      PROVE  UNCHANGED <<nodes, parent, arrival>>
  BY <1>7 DEF Stop, ClearBegin
<1>8. CASE StopAll \/ ClearAll \/ ClearRoot \/ StopAllKilled \/ ClearAllEnd
  BY <1>5, <1>8 DEF StopAll, ClearAll, StopAllBegin, ClearRoot, StopAllKilled, ClearAllEnd
<1>9. CASE UNCHANGED vars
  BY <1>5, <1>9 DEF vars
<1> QED
  BY <1>1, <1>2, <1>3, <1>4, <1>5, <1>6, <1>7, <1>8, <1>9
     DEF Next, UserStep, CommandStep, HandlerStep

LEMMA ClosedInvariance == Spec => []ClosedInv
<1>1. Init => ClosedInv
  BY TreeAssumption DEF Init, ClosedInv, TreeIsClosed
<1>2. ClosedInv /\ [Next]_vars => ClosedInv'
  BY NextClosedInv
<1> QED
  BY <1>1, <1>2, PTL DEF Spec

\* No message of a tree loses its parent, although branches are cleared while
\* replies to them wait to be admitted (data.py:454-482).
THEOREM Closed == Spec => []TreeIsClosed
<1>1. ClosedInv => TreeIsClosed
  BY DEF ClosedInv
<1> QED
  BY <1>1, ClosedInvariance, PTL

-----------------------------------------------------------------------------
(* Types, under every command. *)

\* A step of a task changes tasks, their marks and states, and the queue only
\* by ProcessNext.
LEMMA ProcessNextTypes ==
    ASSUME TypeOK, NEW n \in Node, ProcessNext(n)
    PROVE  /\ queue' \in Seq(Node) /\ is_processing' \in BOOLEAN
           /\ current_node_id' \in Node \cup {None} /\ current_task' \in Node \cup {None}
           /\ task' \in [Node -> Suspended \cup {"none", "created", "done"}]
           /\ must_cancel' \in [Node -> BOOLEAN]
<1>1. must_cancel' \in [Node -> BOOLEAN]
  BY DEF TypeOK, ProcessNext
<1>2. CASE queue = <<>>
  BY <1>1, <1>2 DEF TypeOK, ProcessNext
<1>3. CASE queue # <<>>
  <2>1. Head(queue) \in Node /\ Tail(queue) \in Seq(Node)
    BY <1>3, QueueTail DEF TypeOK
  <2>2. CASE Head(queue) \in nodes
    BY <1>1, <1>3, <2>1, <2>2 DEF TypeOK, ProcessNext
  <2>3. CASE Head(queue) \notin nodes
    BY <1>1, <1>3, <2>1, <2>3 DEF TypeOK, ProcessNext
  <2> QED
    BY <2>2, <2>3
<1> QED
  BY <1>2, <1>3

LEMMA TaskTypes ==
    ASSUME TypeOK, NEW n \in Node, TaskStep(n) \/ CliStep(n) \/ CliExit(n)
    PROVE  TypeOK'
<1> USE DEF treeVars, queueVars, taskVars, cmdVars
<1>0. state \in States
  BY DEF TypeOK, States
<1>1. CASE Start(n)
  BY <1>1 DEF Start, TypeOK, Active, Suspended
<1>2. CASE Skip(n)
  BY <1>2, ProcessNextTypes DEF Skip, TypeOK
<1>3. CASE DieBeforeStart(n)
  BY <1>3 DEF DieBeforeStart, TypeOK
<1>4. CASE SessionReady(n)
  BY <1>4 DEF SessionReady, TypeOK, Suspended
<1>5. CASE Registered(n)
  <2>1. state' \in States
    BY <1>0, <1>5, UpdateErrors DEF Registered, Active
  <2> QED
    BY <1>5, <2>1 DEF Registered, TypeOK, States, Suspended
<1>6. CASE Unwind(n)
  BY <1>6 DEF Unwind, TypeOK, Suspended
<1>7. CASE Cancelled(n)
  <2>1. state' \in States
    BY <1>0, <1>7, UpdateErrors DEF Cancelled, Finished
  <2> QED
    BY <1>7, <2>1 DEF Cancelled, TypeOK, States, Suspended
<1>8. CASE CancelledEarly(n)
  <2>1. state' \in States
    BY <1>0, <1>8, UpdateErrors DEF CancelledEarly, Finished
  <2> QED
    BY <1>8, <2>1, ProcessNextTypes DEF CancelledEarly, TypeOK, States
<1>9. CASE Finish(n)
  BY <1>9, ProcessNextTypes DEF Finish, TypeOK
<1>10. CASE SessionInfo(n)
  BY <1>10 DEF SessionInfo, TypeOK, Suspended
<1>11. CASE ErrorEvent(n)
  <2>1. state' \in States
    BY <1>0, <1>11, MarkErrors DEF ErrorEvent
  <2> QED
    BY <1>11, <2>1 DEF ErrorEvent, TypeOK, States
<1>12. CASE Crash(n)
  <2>1. state' \in States
    BY <1>0, <1>12, MarkErrors DEF Crash
  <2> QED
    BY <1>12, <2>1 DEF Crash, TypeOK, States, Suspended
<1>13. ASSUME NEW code \in {0, 1}, Exit(n, code) PROVE TypeOK'
  <2> DEFINE afterError == IF code = 0 THEN state ELSE MarkNodeError(n)
  <2>1. afterError \in States
    BY <1>0, MarkErrors
  <2>2. state' \in {afterError, [afterError EXCEPT ![n] = "completed"]}
    BY <1>13 DEF Exit
  <2> HIDE DEF afterError
  <2>3. state' \in States
    BY <2>1, <2>2 DEF States, Finished
  <2> QED
    BY <1>13, <2>3 DEF Exit, TypeOK, States, Suspended
<1> QED
  BY <1>1, <1>2, <1>3, <1>4, <1>5, <1>6, <1>7, <1>8, <1>9, <1>10, <1>11, <1>12, <1>13
     DEF TaskStep, CliStep, CliExit

LEMMA CommandTypes ==
    ASSUME TypeOK,
           (\E n \in Node : Stop(n) \/ ClearBegin(n)) \/ StopAll \/ ClearAll \/ CommandStep
    PROVE  TypeOK'
<1> USE DEF queueVars, taskVars, cmdVars
<1>0. state \in States /\ queue \in Seq(Node) /\ must_cancel \in [Node -> BOOLEAN]
  BY DEF TypeOK, States
<1>1. \A S : SetState(S, "error") \in States
  BY <1>0, SetStateErrors
<1>2. CancelCurrentTask => must_cancel' \in [Node -> BOOLEAN]
  BY <1>0 DEF CancelCurrentTask
<1>3. \A S : Without(S) \in Seq(Node)
  BY <1>0, QueueRemaining DEF Without
<1>4. ASSUME NEW n \in Node, Stop(n) PROVE TypeOK'
  <2>1. must_cancel' \in [Node -> BOOLEAN] /\ state' \in States /\ queue' \in Seq(Node)
    BY <1>0, <1>1, <1>2, <1>3, <1>4 DEF Stop
  <2> QED
    BY <1>4, <2>1 DEF Stop, TypeOK, States
<1>5. ASSUME NEW b \in Node, ClearBegin(b) PROVE TypeOK'
  <2> DEFINE hit == {n \in Descendants(b) : state[n] \in Active}
  <2>1. hit \subseteq nodes
    BY <1>5 DEF ClearBegin, Descendants, Below
  <2>2. must_cancel' \in [Node -> BOOLEAN] /\ state' \in States /\ queue' \in Seq(Node)
    BY <1>0, <1>1, <1>2, <1>3, <1>5 DEF ClearBegin
  <2>3. stopped' = stopped \cup hit /\ stored' \in {stored, nodes}
    BY <1>5 DEF ClearBegin
  <2> HIDE DEF hit
  <2> QED
    BY <1>5, <2>1, <2>2, <2>3 DEF ClearBegin, TypeOK, States
<1>6. ASSUME CancelTree
      PROVE  /\ must_cancel' \in [Node -> BOOLEAN] /\ state' \in States /\ queue' \in Seq(Node)
             /\ is_processing' \in BOOLEAN /\ current_node_id' \in Node \cup {None}
             /\ stopped' \subseteq Node /\ UNCHANGED <<current_task, task, captured>>
  BY <1>1, <1>2, <1>6, QueueEmpty DEF CancelTree, ResetProcessingState, TypeOK
<1>7. CASE ClearBranch
  BY <1>7 DEF ClearBranch, TypeOK
<1>8. CASE ClearRoot
  <2>1. CASE Found(Root)
    BY <1>6, <1>8, <2>1 DEF ClearRoot, TypeOK, States
  <2>2. CASE ~Found(Root)
    BY <1>8, <2>2 DEF ClearRoot, TypeOK
  <2> QED
    BY <2>1, <2>2
<1>9. ASSUME NEW cmd, NEW next \in {"stopping", "clear_stopping"}, StopAllBegin(cmd, next)
      PROVE  TypeOK'
  <2>1. global_count' \in 0..GlobalMax
    BY <1>9, TreeAssumption DEF StopAllBegin, TypeOK
  <2>2. global_hit' \in BOOLEAN
    BY <1>9, Zenon DEF StopAllBegin, CancelTreeHits
  <2> QED
    BY <1>6, <1>9, <2>1, <2>2 DEF StopAllBegin, TypeOK, States
<1>10. CASE StopAllKilled
  BY <1>10 DEF StopAllKilled, TypeOK
<1>11. CASE ClearAllEnd
  BY <1>11 DEF ClearAllEnd, TypeOK
<1> QED
  BY <1>4, <1>5, <1>7, <1>8, <1>9, <1>10, <1>11 DEF StopAll, ClearAll, CommandStep

LEMMA NextTypes ==
    ASSUME TypeOK, [Next]_vars
    PROVE  TypeOK'
<1> USE DEF treeVars, queueVars, taskVars, cmdVars
<1>1. ASSUME NEW n \in Node, NEW p \in Node, Arrive(n, p) PROVE TypeOK'
  BY <1>1 DEF Arrive, TypeOK
<1>2. ASSUME NEW n \in Node, Admit(n) PROVE TypeOK'
  <2>1. Append(queue, n) \in Seq(Node)
    BY QueueAppend DEF TypeOK
  <2> QED
    BY <1>2, <2>1 DEF Admit, EnqueueAndStart, TypeOK, Active
<1>3. ASSUME NEW n \in Node, Reject(n) PROVE TypeOK'
  BY <1>3 DEF Reject, TypeOK
<1>4. CASE UNCHANGED vars
  BY <1>4 DEF vars, TypeOK
<1>5. CASE UserStep \/ CommandStep
  BY <1>1, <1>5, CommandTypes DEF UserStep
<1> QED
  BY <1>2, <1>3, <1>4, <1>5, TaskTypes DEF Next, HandlerStep

LEMMA TypeInvariance == Spec => []TypeOK
<1>1. Init => TypeOK
  <2> SUFFICES ASSUME Init PROVE TypeOK
    OBVIOUS
  <2>1. queue \in Seq(Node) /\ global_count \in 0..GlobalMax
    BY TreeAssumption, QueueEmpty DEF Init
  <2> QED
    BY <2>1, TreeAssumption DEF Init, TypeOK, Active
<1>2. TypeOK /\ [Next]_vars => TypeOK'
  BY NextTypes
<1> QED
  BY <1>1, <1>2, PTL DEF Spec

-----------------------------------------------------------------------------
(* No PENDING message is forgotten, under every command.  The tree must know  *)
(* who waits (Queued), a command that cancels a task before its first turn    *)
(* must have marked its node (CancelledIsOver, CurrentIsTask), and a task     *)
(* that starts must find its tree (Indexed).                                  *)

\* Nobody waits twice, and who waits has been admitted and had no task yet.
Queued ==
    /\ IsInjective(queue)
    /\ \A n \in ToSet(queue) : task[n] = "none" /\ arrival[n] = "admitted"

AdmittedFirst == \A n \in Node : task[n] # "none" => arrival[n] = "admitted"

\* get_tree_for_node finds the tree of each of its nodes.
Indexed == in_repo => nodes = node_to_tree

\* The task that a command finds for the current node is that node's.
CurrentIsTask ==
    current_node_id # None =>
        /\ arrival[current_node_id] = "admitted"
        /\ current_node_id \in nodes => current_task = current_node_id

CancelsLiving == \A n \in Node : must_cancel[n] => n \in Live

\* Who is cancelled before the first turn is not PENDING any more: its task dies
\* without a word.
CancelledIsOver ==
    \A n \in nodes : task[n] = "created" /\ must_cancel[n] => state[n] # "pending"

SoundInv ==
    /\ Queued /\ AdmittedFirst /\ Indexed /\ CurrentIsTask
    /\ CancelsLiving /\ CancelledIsOver /\ PendingIsScheduled

\* A step makes no node PENDING.
NoneBecomesPending == \A m \in Node : state'[m] = "pending" => state[m] = "pending"

LEMMA InitSoundInv == Init => SoundInv
<1> SUFFICES ASSUME Init PROVE SoundInv
  OBVIOUS
<1> USE TreeAssumption DEF Init
<1>1. Queued
  BY QueueEmpty DEF Queued
<1>2. AdmittedFirst /\ Indexed /\ CurrentIsTask
  BY DEF AdmittedFirst, Indexed, CurrentIsTask
<1>3. CancelsLiving /\ CancelledIsOver /\ PendingIsScheduled
  BY DEF CancelsLiving, CancelledIsOver, PendingIsScheduled
<1> QED
  BY <1>1, <1>2, <1>3 DEF SoundInv

\* A task goes on or ends, and the queue stays: if it was not yet started, its
\* node is not PENDING any more.
LEMMA MoveSoundInv ==
    ASSUME TypeOK, SoundInv, NEW n \in Live, NEW s \in Suspended \cup {"done"},
           task' = [task EXCEPT ![n] = s],
           must_cancel' = [must_cancel EXCEPT ![n] = FALSE]
              \/ (must_cancel' = must_cancel /\ ~must_cancel[n]),
           NoneBecomesPending,
           in_repo /\ n \in nodes /\ task[n] = "created" => state'[n] # "pending",
           UNCHANGED <<nodes, node_to_tree, in_repo, arrival, queueVars>>
    PROVE  SoundInv'
<1> USE DEF SoundInv, queueVars
<1>1. /\ n \in Node /\ task[n] # "none" /\ task'[n] = s /\ s # "none" /\ s # "created"
      /\ \A m \in Node \ {n} : task'[m] = task[m]
      /\ \A m \in Node \ {n} : must_cancel'[m] = must_cancel[m]
      /\ ~must_cancel'[n] /\ ~(n \in ToSet(queue))
  BY DEF TypeOK, Live, Suspended, Queued
<1>2. ToSet(queue) \subseteq Node /\ nodes \subseteq Node
  BY DEF ToSet, TypeOK
<1>3. Queued'
  BY <1>1, <1>2 DEF Queued
<1>4. AdmittedFirst' /\ Indexed' /\ CurrentIsTask'
  BY <1>1 DEF AdmittedFirst, Indexed, CurrentIsTask
<1>5. CancelsLiving'
  BY <1>1 DEF CancelsLiving, Live
<1>6. CancelledIsOver'
  BY <1>1, <1>2 DEF CancelledIsOver, NoneBecomesPending
<1>7. PendingIsScheduled'
  BY <1>1, <1>2 DEF PendingIsScheduled, NoneBecomesPending
<1> QED
  BY <1>3, <1>4, <1>5, <1>6, <1>7

\* The end of a task: the head of the queue, if it is still in the tree, is
\* about to start instead of waiting; who is not in the tree may be forgotten.
LEMMA ProcessNextSoundInv ==
    ASSUME TypeOK, SoundInv, NEW n \in Live, ProcessNext(n), NoneBecomesPending,
           task[n] = "created" => state[n] # "pending",
           UNCHANGED <<nodes, node_to_tree, in_repo, arrival>>
    PROVE  SoundInv'
<1> USE DEF SoundInv
<1>1. n \in Node /\ task[n] # "none" /\ n \notin ToSet(queue)
  BY DEF Live, Suspended, Queued
<1>2. /\ must_cancel' = [must_cancel EXCEPT ![n] = FALSE]
      /\ ToSet(queue) \subseteq Node /\ nodes \subseteq Node
  BY DEF ProcessNext, ToSet, TypeOK
<1>3. in_repo /\ n \in nodes => state[n] # "pending"
  BY <1>1 DEF PendingIsScheduled
<1>4. CASE queue = <<>>
  <2>1. /\ task' = [task EXCEPT ![n] = "done"] /\ queue' = queue
        /\ current_node_id' = None /\ current_task' = current_task
    BY <1>4 DEF ProcessNext
  <2>2. /\ task'[n] = "done" /\ \A m \in Node \ {n} : task'[m] = task[m]
        /\ ~must_cancel'[n] /\ \A m \in Node \ {n} : must_cancel'[m] = must_cancel[m]
    BY <1>1, <1>2, <2>1 DEF TypeOK
  <2>3. Queued' /\ AdmittedFirst' /\ Indexed' /\ CurrentIsTask'
    BY <1>1, <1>2, <2>1, <2>2 DEF Queued, AdmittedFirst, Indexed, CurrentIsTask
  <2>4. CancelsLiving' /\ CancelledIsOver'
    BY <1>2, <2>2 DEF CancelsLiving, CancelledIsOver, NoneBecomesPending, Live
  <2>5. PendingIsScheduled'
    BY <1>1, <1>2, <1>3, <2>1, <2>2 DEF PendingIsScheduled, NoneBecomesPending
  <2> QED
    BY <2>3, <2>4, <2>5
<1>5. CASE queue # <<>>
  <2> DEFINE h == Head(queue)
  <2>1. /\ h \in Node /\ ToSet(queue) = {h} \cup ToSet(Tail(queue))
        /\ IsInjective(Tail(queue)) /\ h \notin ToSet(Tail(queue))
    BY <1>5, QueueTail DEF TypeOK, Queued
  <2>2. queue' = Tail(queue) /\ current_node_id' = h
    BY <1>5 DEF ProcessNext
  <2>3. /\ h # n /\ task[h] = "none" /\ arrival[h] = "admitted" /\ ~must_cancel[h]
    BY <1>1, <2>1 DEF Queued, CancelsLiving, Live, Suspended
  <2>4. CASE h \in nodes
    <3>1. task' = [task EXCEPT ![n] = "done", ![h] = "created"] /\ current_task' = h
      BY <1>5, <2>4 DEF ProcessNext
    <3> HIDE DEF h
    <3>2. /\ task'[n] = "done" /\ task'[h] = "created"
          /\ \A m \in Node \ {n, h} : task'[m] = task[m]
          /\ ~must_cancel'[n] /\ ~must_cancel'[h]
          /\ \A m \in Node \ {n} : must_cancel'[m] = must_cancel[m]
      BY <1>1, <1>2, <2>1, <2>3, <3>1 DEF TypeOK
    <3>3. Queued' /\ AdmittedFirst' /\ Indexed' /\ CurrentIsTask'
      BY <1>1, <1>2, <2>1, <2>2, <2>3, <3>1, <3>2 DEF Queued, AdmittedFirst, Indexed, CurrentIsTask
    <3>4. CancelsLiving' /\ CancelledIsOver'
      BY <1>2, <3>2 DEF CancelsLiving, CancelledIsOver, NoneBecomesPending, Live
    <3>5. PendingIsScheduled'
      BY <1>1, <1>2, <1>3, <2>1, <2>2, <3>2 DEF PendingIsScheduled, NoneBecomesPending
    <3> QED
      BY <3>3, <3>4, <3>5
  <2>5. CASE h \notin nodes
    <3>1. task' = [task EXCEPT ![n] = "done"] /\ current_task' = current_task
      BY <1>5, <2>5 DEF ProcessNext
    <3> HIDE DEF h
    <3>2. /\ task'[n] = "done" /\ \A m \in Node \ {n} : task'[m] = task[m]
          /\ ~must_cancel'[n] /\ \A m \in Node \ {n} : must_cancel'[m] = must_cancel[m]
      BY <1>1, <1>2, <3>1 DEF TypeOK
    <3>3. Queued' /\ AdmittedFirst' /\ Indexed' /\ CurrentIsTask'
      BY <1>1, <1>2, <2>1, <2>2, <2>3, <2>5, <3>2 DEF Queued, AdmittedFirst, Indexed, CurrentIsTask
    <3>4. CancelsLiving' /\ CancelledIsOver'
      BY <1>2, <3>2 DEF CancelsLiving, CancelledIsOver, NoneBecomesPending, Live
    <3>5. PendingIsScheduled'
      BY <1>1, <1>2, <1>3, <2>1, <2>2, <2>5, <3>2 DEF PendingIsScheduled, NoneBecomesPending
    <3> QED
      BY <3>3, <3>4, <3>5
  <2> QED
    BY <2>4, <2>5
<1> QED
  BY <1>4, <1>5

LEMMA TaskSoundInv ==
    ASSUME TypeOK, SoundInv, NEW n \in Node, TaskStep(n) \/ CliStep(n) \/ CliExit(n)
    PROVE  SoundInv'
<1> USE DEF treeVars, taskVars, cmdVars
<1>0. state \in States
  BY DEF TypeOK, States
<1>1. CASE Start(n)
  <2>1. n \in Live /\ task' = [task EXCEPT ![n] = "session"] /\ must_cancel' = must_cancel /\ ~must_cancel[n]
    BY <1>1 DEF Start, Live
  <2>2. NoneBecomesPending
    BY <1>0, <1>1 DEF Start, NoneBecomesPending, States
  <2>3. in_repo /\ n \in nodes => state'[n] # "pending"
    BY <1>0, <1>1 DEF Start, Found, SoundInv, Indexed, States
  <2> QED
    BY <1>1, <2>1, <2>2, <2>3, MoveSoundInv DEF Start, Suspended
<1>2. CASE Skip(n)
  <2>1. n \in Live /\ NoneBecomesPending
    BY <1>2 DEF Skip, Live, NoneBecomesPending
  <2> QED
    BY <1>2, <2>1, ProcessNextSoundInv DEF Skip
<1>3. CASE DieBeforeStart(n)
  <2>1. n \in Live /\ NoneBecomesPending
    BY <1>3 DEF DieBeforeStart, Live, NoneBecomesPending
  <2>2. n \in nodes => state'[n] # "pending"
    BY <1>3 DEF DieBeforeStart, SoundInv, CancelledIsOver
  <2> QED
    BY <1>3, <2>1, <2>2, MoveSoundInv DEF DieBeforeStart
<1>4. CASE SessionReady(n)
  <2>1. n \in Live /\ NoneBecomesPending /\ task[n] # "created"
    BY <1>4 DEF SessionReady, Live, NoneBecomesPending, Suspended
  <2> QED
    BY <1>4, <2>1, MoveSoundInv DEF SessionReady, Suspended
<1>5. CASE Registered(n)
  <2>1. n \in Live /\ task[n] # "created"
    BY <1>5 DEF Registered, Live, Suspended
  <2>2. NoneBecomesPending
    BY <1>0, <1>5, UpdateErrors DEF Registered, NoneBecomesPending, Active
  <2> QED
    BY <1>5, <2>1, <2>2, MoveSoundInv DEF Registered, Suspended
<1>6. CASE Unwind(n)
  <2>1. n \in Live /\ NoneBecomesPending /\ task[n] # "created"
    BY <1>6 DEF Unwind, Live, NoneBecomesPending, Suspended
  <2> QED
    BY <1>6, <2>1, MoveSoundInv DEF Unwind, Suspended
<1>7. CASE Cancelled(n)
  <2>1. n \in Live /\ task[n] # "created"
    BY <1>7 DEF Cancelled, Live, Suspended
  <2>2. NoneBecomesPending
    BY <1>0, <1>7, UpdateErrors DEF Cancelled, NoneBecomesPending, Finished
  <2> QED
    BY <1>7, <2>1, <2>2, MoveSoundInv DEF Cancelled, Suspended
<1>8. CASE CancelledEarly(n)
  <2>1. n \in Live /\ task[n] # "created"
    BY <1>8 DEF CancelledEarly, Live, Suspended
  <2>2. NoneBecomesPending
    BY <1>0, <1>8, UpdateErrors DEF CancelledEarly, NoneBecomesPending, Finished
  <2> QED
    BY <1>8, <2>1, <2>2, ProcessNextSoundInv DEF CancelledEarly
<1>9. CASE Finish(n)
  <2>1. n \in Live /\ NoneBecomesPending /\ task[n] # "created"
    BY <1>9 DEF Finish, Live, NoneBecomesPending, Suspended
  <2> QED
    BY <1>9, <2>1, ProcessNextSoundInv DEF Finish
<1>10. CASE SessionInfo(n)
  <2>1. n \in Live /\ NoneBecomesPending /\ task[n] # "created"
    BY <1>10 DEF SessionInfo, Live, NoneBecomesPending, Suspended
  <2> QED
    BY <1>10, <2>1, MoveSoundInv DEF SessionInfo, Suspended
<1>11. CASE ErrorEvent(n)
  <2>1. NoneBecomesPending
    BY <1>0, <1>11, MarkErrors DEF ErrorEvent, NoneBecomesPending
  <2>2. UNCHANGED <<nodes, node_to_tree, in_repo, arrival, queueVars, task, must_cancel>>
    BY <1>11 DEF ErrorEvent
  <2>3. nodes \subseteq Node
    BY DEF TypeOK
  <2> QED
    BY <2>1, <2>2, <2>3 DEF queueVars, NoneBecomesPending, SoundInv, Queued, AdmittedFirst, Indexed,
       CurrentIsTask, CancelsLiving, CancelledIsOver, PendingIsScheduled, Live
<1>12. CASE Crash(n)
  <2>1. n \in Live /\ task[n] # "created"
    BY <1>12 DEF Crash, Live, Suspended
  <2>2. NoneBecomesPending
    BY <1>0, <1>12, MarkErrors DEF Crash, NoneBecomesPending
  <2> QED
    BY <1>12, <2>1, <2>2, MoveSoundInv DEF Crash, Suspended
<1>13. ASSUME NEW code \in {0, 1}, Exit(n, code) PROVE SoundInv'
  <2> DEFINE afterError == IF code = 0 THEN state ELSE MarkNodeError(n)
  <2>1. afterError \in States /\ \A m \in Node : afterError[m] \in {state[m], "error"}
    BY <1>0, MarkErrors
  <2>2. state' \in {afterError, [afterError EXCEPT ![n] = "completed"]}
    BY <1>13 DEF Exit
  <2> HIDE DEF afterError
  <2>3. NoneBecomesPending
    BY <2>1, <2>2 DEF NoneBecomesPending, States
  <2>4. n \in Live /\ task[n] # "created"
    BY <1>13 DEF Exit, Live, Suspended
  <2> QED
    BY <1>13, <2>3, <2>4, MoveSoundInv DEF Exit, Suspended
<1> QED
  BY <1>1, <1>2, <1>3, <1>4, <1>5, <1>6, <1>7, <1>8, <1>9, <1>10, <1>11, <1>12, <1>13
     DEF TaskStep, CliStep, CliExit

\* A reply waits in the queue of a busy tree or starts at once in a free one.
LEMMA AdmitSoundInv ==
    ASSUME TypeOK, ClosedInv, SoundInv, NEW n \in Node, Admit(n)
    PROVE  SoundInv'
<1> USE DEF SoundInv, cmdVars
<1>1. /\ arrival[n] # "admitted" /\ in_repo /\ UNCHANGED <<in_repo, must_cancel>>
      /\ nodes' = nodes \cup {n} /\ node_to_tree' = node_to_tree \cup {n}
  BY DEF Admit, Found
<1>2. n \notin nodes /\ task[n] = "none" /\ ~must_cancel[n] /\ n \notin ToSet(queue) /\ current_node_id # n
  BY <1>1, TreeAssumption DEF ClosedInv, AdmittedFirst, CancelsLiving, Live, Suspended, Queued, CurrentIsTask
<1>3. /\ arrival'[n] = "admitted" /\ \A m \in Node \ {n} : arrival'[m] = arrival[m] /\ state'[m] = state[m]
      /\ ToSet(queue) \subseteq Node /\ nodes \subseteq Node
  BY DEF Admit, TypeOK, ToSet
<1>4. Indexed'
  BY <1>1 DEF Indexed
<1>5. CASE is_processing
  <2>1. queue' = Append(queue, n) /\ UNCHANGED <<task, current_node_id, current_task>>
    BY <1>5 DEF Admit, EnqueueAndStart
  <2>2. IsInjective(queue') /\ ToSet(queue') = ToSet(queue) \cup {n}
    BY <1>2, <2>1, QueueAppend DEF TypeOK, Queued
  <2>3. Queued' /\ AdmittedFirst'
    BY <1>2, <1>3, <2>1, <2>2 DEF Queued, AdmittedFirst
  <2>4. CurrentIsTask'
    <3>1. current_node_id \in Node \cup {None}
      BY DEF TypeOK
    <3> QED
      BY <1>1, <1>2, <1>3, <2>1, <3>1 DEF CurrentIsTask
  <2>5. CancelsLiving' /\ CancelledIsOver' /\ PendingIsScheduled'
    BY <1>1, <1>2, <1>3, <2>1, <2>2 DEF CancelsLiving, CancelledIsOver, PendingIsScheduled, Live
  <2> QED
    BY <1>4, <2>3, <2>4, <2>5
<1>6. CASE ~is_processing
  <2>1. task' = [task EXCEPT ![n] = "created"] /\ queue' = queue /\ current_node_id' = n /\ current_task' = n
    BY <1>6 DEF Admit, EnqueueAndStart
  <2>2. task'[n] = "created" /\ \A m \in Node \ {n} : task'[m] = task[m]
    BY <2>1 DEF TypeOK
  <2>3. Queued' /\ AdmittedFirst' /\ CurrentIsTask'
    BY <1>2, <1>3, <2>1, <2>2 DEF Queued, AdmittedFirst, CurrentIsTask
  <2>4. CancelsLiving' /\ CancelledIsOver' /\ PendingIsScheduled'
    BY <1>1, <1>2, <1>3, <2>1, <2>2 DEF CancelsLiving, CancelledIsOver, PendingIsScheduled, Live
  <2> QED
    BY <1>4, <2>3, <2>4
<1> QED
  BY <1>5, <1>6

\* A command moves the PENDING nodes it takes out of the queue to ERROR, and the
\* node whose task it cancels before the first turn.
LEMMA CommandSoundInv ==
    ASSUME TypeOK, SoundInv, IsInjective(queue'), ToSet(queue') \subseteq ToSet(queue),
           NoneBecomesPending,
           \A m \in nodes : m \in ToSet(queue) /\ state'[m] = "pending" => m \in ToSet(queue'),
           \A m \in Node : must_cancel'[m] =>
               must_cancel[m] \/ (m \in Live /\ (m \in nodes => state'[m] # "pending")),
           current_node_id' \in {None, current_node_id},
           in_repo' => in_repo /\ node_to_tree' = node_to_tree,
           UNCHANGED <<nodes, arrival, task, current_task>>
    PROVE  SoundInv'
<1> USE DEF SoundInv
<1>1. nodes \subseteq Node
  BY DEF TypeOK
<1>2. Queued' /\ AdmittedFirst' /\ Indexed' /\ CurrentIsTask'
  BY DEF Queued, AdmittedFirst, Indexed, CurrentIsTask
<1>3. CancelsLiving' /\ CancelledIsOver'
  BY <1>1 DEF CancelsLiving, CancelledIsOver, NoneBecomesPending, Live
<1>4. PendingIsScheduled'
  BY <1>1 DEF PendingIsScheduled, NoneBecomesPending
<1> QED
  BY <1>2, <1>3, <1>4

LEMMA CommandsSoundInv ==
    ASSUME TypeOK, SoundInv,
           (\E n \in Node : Stop(n) \/ ClearBegin(n)) \/ StopAll \/ ClearAll \/ CommandStep
    PROVE  SoundInv'
<1> USE DEF queueVars, taskVars, cmdVars
<1>0. /\ state \in States /\ queue \in Seq(Node) /\ IsInjective(queue) /\ nodes \subseteq Node
      /\ current_node_id \in Node \cup {None}
      /\ current_node_id \in nodes => current_task = current_node_id
  BY TreeAssumption DEF TypeOK, States, SoundInv, Queued, CurrentIsTask
<1>1. \A S : IsInjective(Without(S)) /\ ToSet(Without(S)) = ToSet(queue) \ S
  BY <1>0, QueueRemaining DEF Without
<1>2. \A S : \A m \in Node : SetState(S, "error")[m] = IF m \in S THEN "error" ELSE state[m]
  BY <1>0, SetStateErrors
<1>3. CancelCurrentTask => \A m \in Node : must_cancel'[m] => must_cancel[m] \/ (m \in Live /\ m = current_task)
  BY DEF CancelCurrentTask
<1>4. ASSUME NEW n \in Node, Stop(n) PROVE SoundInv'
  <2>1. NoneBecomesPending /\ state'[n] = "error"
    BY <1>2, <1>4 DEF Stop, NoneBecomesPending
  <2>2. IsInjective(queue') /\ ToSet(queue') = ToSet(queue) \ {n}
    BY <1>1, <1>4 DEF Stop
  <2>3. \A m \in Node : must_cancel'[m] => must_cancel[m] \/ (m \in Live /\ m = n)
    BY <1>0, <1>3, <1>4 DEF Stop
  <2>4. UNCHANGED <<nodes, arrival, task, current_task, current_node_id, in_repo, node_to_tree>>
    BY <1>4 DEF Stop
  <2> QED
    BY <2>1, <2>2, <2>3, <2>4, CommandSoundInv
<1>5. ASSUME NEW b \in Node, ClearBegin(b) PROVE SoundInv'
  <2> DEFINE hit == {n \in Descendants(b) : state[n] \in Active}
  <2>1. hit \subseteq nodes
    BY <1>5 DEF ClearBegin, Descendants, Below
  <2>2. /\ state' = SetState(hit, "error") /\ queue' = Without(hit \ {current_node_id})
        /\ IF current_node_id \in hit THEN CancelCurrentTask ELSE UNCHANGED must_cancel
    BY <1>5 DEF ClearBegin
  <2>3. UNCHANGED <<nodes, arrival, task, current_task, current_node_id, in_repo, node_to_tree>>
    BY <1>5 DEF ClearBegin
  <2> HIDE DEF hit
  <2>4. NoneBecomesPending /\ \A m \in hit : state'[m] = "error"
    BY <1>0, <1>2, <2>1, <2>2 DEF NoneBecomesPending
  <2>5. IsInjective(queue') /\ ToSet(queue') = ToSet(queue) \ (hit \ {current_node_id})
    BY <1>1, <2>2
  <2>6. \A m \in Node : must_cancel'[m] => must_cancel[m] \/ (m \in Live /\ m \in hit)
    BY <1>0, <1>3, <2>1, <2>2
  <2> QED
    BY <2>3, <2>4, <2>5, <2>6, CommandSoundInv
<1>6. ASSUME CancelTree, in_repo' => in_repo /\ node_to_tree' = node_to_tree, UNCHANGED <<nodes, arrival>>
      PROVE  SoundInv'
  <2> DEFINE hit == {n \in nodes : state[n] \in Active}
             S == hit \cup (ToSet(queue) \cap nodes)
  <2>1. /\ state' = SetState(S, "error") /\ queue' = <<>> /\ CancelCurrentTask
        /\ current_node_id' = None /\ UNCHANGED <<task, current_task>>
    BY <1>6 DEF CancelTree, ResetProcessingState
  <2>2. \A m \in nodes : state[m] = "pending" => m \in S
    BY DEF Active
  <2>3. ToSet(queue) \cap nodes \subseteq S
    OBVIOUS
  <2> HIDE DEF S
  <2>4. NoneBecomesPending /\ \A m \in nodes : state'[m] # "pending"
    BY <1>0, <1>2, <2>1, <2>2 DEF NoneBecomesPending
  <2>5. IsInjective(queue') /\ ToSet(queue') = {}
    BY <2>1, QueueEmpty
  <2> QED
    BY <1>3, <1>6, <2>1, <2>4, <2>5, CommandSoundInv
<1>7. CASE ClearBranch
  <2>1. /\ nodes' \subseteq nodes /\ UNCHANGED <<state, in_repo, queueVars, taskVars, arrival>>
        /\ Indexed'
    BY <1>7 DEF ClearBranch, SoundInv, Indexed
  <2> QED
    BY <2>1 DEF SoundInv, Queued, AdmittedFirst, CurrentIsTask, CancelsLiving, CancelledIsOver,
       PendingIsScheduled, Live
<1>8. CASE ClearRoot
  <2>1. CASE Found(Root)
    BY <1>6, <1>8, <2>1 DEF ClearRoot
  <2>2. CASE ~Found(Root)
    BY <1>8, <2>2 DEF ClearRoot, SoundInv, Queued, AdmittedFirst, Indexed, CurrentIsTask, CancelsLiving,
       CancelledIsOver, PendingIsScheduled, Live
  <2> QED
    BY <2>1, <2>2
<1>9. CASE StopAll \/ ClearAll
  BY <1>6, <1>9 DEF StopAll, ClearAll, StopAllBegin
<1>10. CASE StopAllKilled \/ ClearAllEnd
  <2>1. /\ UNCHANGED <<nodes, state, node_to_tree, queueVars, taskVars, arrival>>
        /\ in_repo' => in_repo
    BY <1>10 DEF StopAllKilled, ClearAllEnd
  <2> QED
    BY <2>1 DEF SoundInv, Queued, AdmittedFirst, Indexed, CurrentIsTask, CancelsLiving,
       CancelledIsOver, PendingIsScheduled, Live
<1> QED
  BY <1>4, <1>5, <1>7, <1>8, <1>9, <1>10 DEF CommandStep

LEMMA NextSoundInv ==
    ASSUME TypeOK, ClosedInv, SoundInv, [Next]_vars
    PROVE  SoundInv'
<1> USE DEF treeVars, queueVars, taskVars, cmdVars
<1>1. ASSUME NEW n \in Node, arrival[n] # "admitted", NEW a, a # "admitted",
             arrival' = [arrival EXCEPT ![n] = a],
             UNCHANGED <<nodes, state, node_to_tree, in_repo, queueVars, taskVars>>
      PROVE  SoundInv'
  <2>1. \A m \in Node : arrival[m] = "admitted" => arrival'[m] = "admitted"
    BY <1>1 DEF TypeOK
  <2>2. ToSet(queue) \subseteq Node /\ current_node_id \in Node \cup {None}
    BY DEF TypeOK, ToSet
  <2> QED
    BY <1>1, <2>1, <2>2 DEF SoundInv, Queued, AdmittedFirst, Indexed, CurrentIsTask, CancelsLiving,
       CancelledIsOver, PendingIsScheduled, Live
<1>2. ASSUME NEW n \in Node, NEW p \in Node, Arrive(n, p) PROVE SoundInv'
  BY <1>1, <1>2 DEF Arrive
<1>3. ASSUME NEW n \in Node, Reject(n) PROVE SoundInv'
  BY <1>1, <1>3 DEF Reject
<1>4. CASE UNCHANGED vars
  BY <1>4 DEF vars, SoundInv, Queued, AdmittedFirst, Indexed, CurrentIsTask, CancelsLiving,
     CancelledIsOver, PendingIsScheduled, Live
<1>5. CASE UserStep \/ CommandStep
  BY <1>2, <1>5, CommandsSoundInv DEF UserStep
<1> QED
  BY <1>3, <1>4, <1>5, AdmitSoundInv, TaskSoundInv DEF Next, HandlerStep

LEMMA SoundInvariance == Spec => []SoundInv
<1>1. TypeOK /\ ClosedInv /\ SoundInv /\ [Next]_vars => SoundInv'
  BY NextSoundInv
<1> QED
  BY <1>1, InitSoundInv, TypeInvariance, ClosedInvariance, PTL DEF Spec

\* Whatever users stop and clear, with a reply or without one, at any moment: no
\* PENDING message is dropped from the queue without being started, failed or
\* cancelled, and no message loses its parent (queue_manager.py:240-330, 530-720).
THEOREM Sound == Spec => []TreeIsSound
<1>1. TypeOK /\ ClosedInv /\ SoundInv => TreeIsSound
  BY DEF TreeIsSound, ClosedInv, SoundInv
<1> QED
  BY <1>1, TypeInvariance, ClosedInvariance, SoundInvariance, PTL

-----------------------------------------------------------------------------
(* A busy tree has somebody to hand it over, as long as commands come without *)
(* a reply: a reply-scoped /stop can kill a task before its first turn and    *)
(* strand the tree.                                                           *)

GlobalCommandsOnly == Commands \cap {"stop", "clear"} = {}

\* A task that will reach the end of process_node.
HandsOver(n) == n \in Live /\ ~(task[n] = "created" /\ must_cancel[n])

WorkInv ==
    /\ clearing = None
    /\ ToSet(queue) \subseteq nodes
    /\ is_processing => \E n \in Node : HandsOver(n)

\* The tree passes to the head of the queue, which nobody has cancelled.
LEMMA ProcessNextWorkInv ==
    ASSUME TypeOK, SoundInv, WorkInv, NEW n \in Live, ProcessNext(n), UNCHANGED <<nodes, clearing>>
    PROVE  WorkInv'
<1>1. CASE queue = <<>>
  BY <1>1 DEF ProcessNext, WorkInv
<1>2. CASE queue # <<>>
  <2>0. PICK h : h = Head(queue)
    OBVIOUS
  <2>1. h \in Node /\ ToSet(queue) = {h} \cup ToSet(Tail(queue))
    BY <1>2, <2>0, QueueTail DEF TypeOK
  <2>2. h \in nodes /\ task[h] = "none" /\ ~must_cancel[h]
    BY <2>1 DEF WorkInv, SoundInv, Queued, CancelsLiving, Live, Suspended
  <2>3. /\ task' = [task EXCEPT ![n] = "done", ![h] = "created"] /\ queue' = Tail(queue)
        /\ must_cancel' = [must_cancel EXCEPT ![n] = FALSE]
    BY <1>2, <2>0, <2>2 DEF ProcessNext
  <2>4. h # n
    BY <2>2 DEF Live, Suspended
  <2>5. task'[h] = "created" /\ ~must_cancel'[h]
    BY <2>1, <2>2, <2>3, <2>4 DEF TypeOK
  <2>6. HandsOver(h)'
    BY <2>1, <2>5 DEF HandsOver, Live
  <2>7. ToSet(queue') \subseteq nodes'
    BY <2>1, <2>3 DEF WorkInv
  <2> QED
    BY <2>1, <2>6, <2>7 DEF WorkInv
<1> QED
  BY <1>1, <1>2

\* A task that only moves on still hands over, and one that dies before its first
\* turn never did.
LEMMA MoveWorkInv ==
    ASSUME TypeOK, WorkInv, NEW n \in Node, NEW s \in Suspended \cup {"done"},
           task' = [task EXCEPT ![n] = s], s = "done" => ~HandsOver(n),
           \A m \in Node \ {n} : must_cancel'[m] = must_cancel[m],
           UNCHANGED <<nodes, clearing, queue, is_processing>>
    PROVE  WorkInv'
<1>1. task'[n] = s /\ \A m \in Node \ {n} : task'[m] = task[m]
  BY DEF TypeOK
<1>2. ASSUME NEW m \in Node, HandsOver(m) PROVE HandsOver(m)'
  BY <1>1, <1>2 DEF HandsOver, Live, Suspended
<1> QED
  BY <1>2 DEF WorkInv

LEMMA TaskWorkInv ==
    ASSUME TypeOK, SoundInv, WorkInv, NEW n \in Node, TaskStep(n) \/ CliStep(n) \/ CliExit(n)
    PROVE  WorkInv'
<1> USE DEF treeVars, queueVars, taskVars, cmdVars
<1>0. must_cancel \in [Node -> BOOLEAN]
  BY DEF TypeOK
<1>1. CASE Skip(n) \/ CancelledEarly(n) \/ Finish(n)
  <2>1. n \in Live
    BY <1>1 DEF Skip, CancelledEarly, Finish, Live, Suspended
  <2> QED
    BY <1>1, <2>1, ProcessNextWorkInv DEF Skip, CancelledEarly, Finish
<1>2. CASE DieBeforeStart(n)
  <2>1. ~HandsOver(n)
    BY <1>2 DEF DieBeforeStart, HandsOver
  <2> QED
    BY <1>0, <1>2, <2>1, MoveWorkInv DEF DieBeforeStart
<1>3. CASE Start(n)
  BY <1>3, MoveWorkInv DEF Start, Suspended
<1>4. CASE SessionReady(n)
  BY <1>4, MoveWorkInv DEF SessionReady, Suspended
<1>5. CASE Registered(n)
  BY <1>5, MoveWorkInv DEF Registered, Suspended
<1>6. CASE Unwind(n)
  BY <1>0, <1>6, MoveWorkInv DEF Unwind, Suspended
<1>7. CASE Cancelled(n)
  BY <1>0, <1>7, MoveWorkInv DEF Cancelled, Suspended
<1>8. CASE SessionInfo(n)
  BY <1>8, MoveWorkInv DEF SessionInfo, Suspended
<1>9. CASE ErrorEvent(n)
  BY <1>9 DEF ErrorEvent, WorkInv, HandsOver, Live
<1>10. CASE Crash(n)
  BY <1>10, MoveWorkInv DEF Crash, Suspended
<1>11. ASSUME NEW code \in {0, 1}, Exit(n, code) PROVE WorkInv'
  BY <1>11, MoveWorkInv DEF Exit, Suspended
<1> QED
  BY <1>1, <1>2, <1>3, <1>4, <1>5, <1>6, <1>7, <1>8, <1>9, <1>10, <1>11
     DEF TaskStep, CliStep, CliExit

LEMMA NextWorkInv ==
    ASSUME GlobalCommandsOnly, TypeOK, SoundInv, ClosedInv, WorkInv, [Next]_vars
    PROVE  WorkInv'
<1> USE DEF treeVars, queueVars, taskVars, cmdVars
<1>1. ASSUME NEW n \in Node, Admit(n) PROVE WorkInv'
  <2>1. nodes' = nodes \cup {n} /\ UNCHANGED <<clearing, must_cancel>> /\ arrival[n] # "admitted"
    BY <1>1 DEF Admit
  <2>2. CASE is_processing
    <3>1. queue' = Append(queue, n) /\ UNCHANGED <<is_processing, task>>
      BY <1>1, <2>2 DEF Admit, EnqueueAndStart
    <3>2. ToSet(queue') = ToSet(queue) \cup {n}
      BY <3>1, QueueAppend DEF TypeOK
    <3> QED
      BY <2>1, <3>1, <3>2 DEF WorkInv, HandsOver, Live
  <2>3. CASE ~is_processing
    <3>1. queue' = queue /\ task' = [task EXCEPT ![n] = "created"]
      BY <1>1, <2>3 DEF Admit, EnqueueAndStart
    <3>2. task[n] = "none" /\ ~must_cancel[n]
      BY <2>1 DEF SoundInv, AdmittedFirst, CancelsLiving, Live, Suspended
    <3>3. HandsOver(n)'
      BY <2>1, <3>1, <3>2 DEF HandsOver, Live, TypeOK
    <3> QED
      BY <2>1, <3>1, <3>3 DEF WorkInv
  <2> QED
    BY <2>2, <2>3
<1>2. ASSUME NEW n \in Node PROVE ~Stop(n) /\ ~ClearBegin(n)
  BY DEF Stop, ClearBegin, GlobalCommandsOnly
<1>3. ~ClearBranch /\ ~ClearRoot
  BY TreeAssumption DEF ClearBranch, ClearRoot, WorkInv
<1>4. CASE StopAll \/ ClearAll
  <2>1. is_processing' = FALSE /\ queue' = <<>> /\ clearing' = clearing
    BY <1>4 DEF StopAll, ClearAll, StopAllBegin, CancelTree, ResetProcessingState
  <2> QED
    BY <2>1, QueueEmpty, Zenon DEF WorkInv
<1>5. CASE StopAllKilled \/ ClearAllEnd
  BY <1>5 DEF StopAllKilled, ClearAllEnd, WorkInv, HandsOver, Live
<1>6. ASSUME NEW n \in Node, Reject(n) \/ \E p \in Node : Arrive(n, p) PROVE WorkInv'
  BY <1>6 DEF Reject, Arrive, WorkInv, HandsOver, Live
<1>7. CASE UNCHANGED vars
  BY <1>7 DEF vars, WorkInv, HandsOver, Live
<1>8. CASE UserStep \/ CommandStep
  BY <1>2, <1>3, <1>4, <1>5, <1>6, <1>8 DEF UserStep, CommandStep
<1> QED
  BY <1>1, <1>6, <1>7, <1>8, TaskWorkInv DEF Next, HandlerStep

\* A /stop or /clear without a reply resets a tree under tasks that are still
\* alive; whatever they do afterwards, a busy tree has a task at work on it
\* (queue_manager.py:530-578).
THEOREM Working ==
    ASSUME GlobalCommandsOnly
    PROVE  Spec => []ProcessingMeansWorking
<1>1. Init => WorkInv
  <2> SUFFICES ASSUME Init PROVE WorkInv
    OBVIOUS
  <2>1. HandsOver(Root)
    BY TreeAssumption DEF Init, HandsOver, Live
  <2> QED
    BY <2>1, TreeAssumption, QueueEmpty DEF Init, WorkInv
<1>2. TypeOK /\ SoundInv /\ ClosedInv /\ WorkInv /\ [Next]_vars => WorkInv'
  BY NextWorkInv
<1>3. WorkInv => ProcessingMeansWorking
  BY DEF WorkInv, HandsOver, ProcessingMeansWorking
<1> QED
  BY <1>1, <1>2, <1>3, TypeInvariance, SoundInvariance, ClosedInvariance, PTL DEF Spec

-----------------------------------------------------------------------------
(* The tree implements Turns, as long as every command is a reply: the living *)
(* task is the turn, the queue is who waits.                                  *)

Served == {n \in Node : task[n] # "none"}

\* What the abstract queue does when nothing of it changes.
LEMMA TurnStutters ==
    ASSUME queue' = queue, Live' = Live, Served' = Served
    PROVE  UNCHANGED Turn!vars
  BY DEF Turn!vars, Served

LEMMA MoveIsNoTurn ==
    ASSUME TypeOK, NEW n \in Live, NEW s \in Suspended, task' = [task EXCEPT ![n] = s], queue' = queue
    PROVE  UNCHANGED Turn!vars
<1>1. n \in Node /\ task[n] \in Suspended \cup {"created"}
  BY DEF Live
<1>2. task'[n] = s /\ \A m \in Node \ {n} : task'[m] = task[m]
  BY <1>1 DEF TypeOK
<1>3. Live' = Live /\ Served' = Served
  BY <1>1, <1>2 DEF Live, Served, Suspended
<1> QED
  BY <1>3, TurnStutters

\* The end of a task passes the turn on to the head of the queue, or to nobody.
LEMMA ProcessNextIsTurn ==
    ASSUME TypeOK, SoundInv, OneTask, NEW n \in Live, ProcessNext(n)
    PROVE  Turn!Next
<1>1. Live = {n} /\ n \in Node
  BY DEF OneTask, Live
<1>2. CASE queue = <<>>
  <2>1. task' = [task EXCEPT ![n] = "done"] /\ queue' = queue
    BY <1>2 DEF ProcessNext
  <2>2. task'[n] = "done" /\ \A m \in Node \ {n} : task'[m] = task[m]
    BY <1>1, <2>1 DEF TypeOK
  <2>3. Live' = {} /\ Served' = Served
    BY <1>1, <2>2 DEF Live, Served, Suspended
  <2>4. Turn!EndTurn
    BY <1>1, <2>1, <2>3 DEF Turn!EndTurn, Served
  <2> QED
    BY <2>4 DEF Turn!Next
<1>3. CASE queue # <<>>
  <2>0. PICK h : h = Head(queue)
    OBVIOUS
  <2>1. h \in Node /\ h \in ToSet(queue) /\ queue' = Tail(queue)
    BY <1>3, <2>0, QueueTail DEF TypeOK, ProcessNext
  <2>2. h # n /\ task[h] = "none"
    BY <1>1, <2>1 DEF SoundInv, Queued, Live, Suspended
  <2>3. CASE h \in nodes
    <3>1. task' = [task EXCEPT ![n] = "done", ![h] = "created"]
      BY <1>3, <2>0, <2>3 DEF ProcessNext
    <3>2. /\ task'[n] = "done" /\ task'[h] = "created"
          /\ \A m \in Node \ {n, h} : task'[m] = task[m]
      BY <1>1, <2>1, <2>2, <3>1 DEF TypeOK
    <3>3. Live' = {h}
      BY <1>1, <2>1, <3>2 DEF Live, Suspended
    <3>4. Served' = Served \cup {h} /\ h \notin Served
      BY <1>1, <2>1, <2>2, <3>2 DEF Live, Served, Suspended
    <3>5. Turn!PassOn
      BY <1>1, <1>3, <2>0, <2>1, <3>3, <3>4 DEF Turn!PassOn, Turn!Take, Served
    <3> QED
      BY <3>5 DEF Turn!Next
  <2>4. CASE h \notin nodes
    <3>1. task' = [task EXCEPT ![n] = "done"]
      BY <1>3, <2>0, <2>4 DEF ProcessNext
    <3>2. task'[n] = "done" /\ \A m \in Node \ {n} : task'[m] = task[m]
      BY <1>1, <3>1 DEF TypeOK
    <3>3. Live' = {} /\ Served' = Served
      BY <1>1, <3>2 DEF Live, Served, Suspended
    <3>4. queue' \in {Tail(queue) : w \in ToSet(queue)}
      BY <2>1
    <3>5. Turn!ToSet(queue) = ToSet(queue)
      BY DEF Turn!ToSet, ToSet
    <3>6. Turn!EndTurn
      BY <1>1, <3>3, <3>4, <3>5 DEF Turn!EndTurn, Served
    <3> QED
      BY <3>6 DEF Turn!Next
  <2> QED
    BY <2>3, <2>4
<1> QED
  BY <1>2, <1>3

\* Whoever leaves the queue for a command is withdrawn.
LEMMA RemovalIsWithdrawal ==
    ASSUME TypeOK, NEW S, queue' = Without(S), task' = task
    PROVE  Turn!Next
<1> DEFINE gone == S \cap ToSet(queue)
<1>1. queue' = Remaining(queue, gone)
  BY RemainingAgrees DEF Without, TypeOK
<1>2. gone \in SUBSET ToSet(queue)
  OBVIOUS
<1>3. Turn!ToSet(queue) = ToSet(queue)
  BY DEF Turn!ToSet, ToSet
<1>4. Turn!Remaining(queue, gone) = Remaining(queue, gone)
  BY DEF Turn!Remaining, Remaining
<1> HIDE DEF gone
<1>5. Live' = Live
  BY DEF Live
<1>6. Turn!Withdraw
  BY <1>1, <1>2, <1>3, <1>4, <1>5 DEF Turn!Withdraw
<1> QED
  BY <1>6 DEF Turn!Next

LEMMA TaskTakesTurns ==
    ASSUME TypeOK, SoundInv, OneTask, NEW n \in Node, TaskStep(n) \/ CliStep(n) \/ CliExit(n)
    PROVE  [Turn!Next]_(Turn!vars)
<1> USE DEF treeVars, queueVars, taskVars, cmdVars
<1>1. CASE Skip(n) \/ CancelledEarly(n) \/ Finish(n)
  <2>1. n \in Live /\ ProcessNext(n)
    BY <1>1 DEF Skip, CancelledEarly, Finish, Live, Suspended
  <2> QED
    BY <2>1, ProcessNextIsTurn
<1>2. CASE DieBeforeStart(n)
  <2>1. task[n] = "created" /\ task' = [task EXCEPT ![n] = "done"] /\ queue' = queue
    BY <1>2 DEF DieBeforeStart
  <2>2. task'[n] = "done" /\ \A m \in Node \ {n} : task'[m] = task[m]
    BY <2>1 DEF TypeOK
  <2>3. Live = {n}
    BY <2>1 DEF OneTask, Live
  <2>4. Live' = {} /\ Served' = Served
    BY <2>1, <2>2, <2>3 DEF Live, Served, Suspended
  <2>5. Turn!EndTurn
    BY <2>1, <2>3, <2>4 DEF Turn!EndTurn, Served
  <2> QED
    BY <2>5 DEF Turn!Next
<1>3. ASSUME NEW s \in Suspended, n \in Live, task' = [task EXCEPT ![n] = s], queue' = queue
      PROVE  UNCHANGED Turn!vars
  BY <1>3, MoveIsNoTurn
<1>4. CASE Start(n)
  BY <1>3, <1>4 DEF Start, Live, Suspended
<1>5. CASE SessionReady(n)
  BY <1>3, <1>5 DEF SessionReady, Live, Suspended
<1>6. CASE Registered(n)
  BY <1>3, <1>6 DEF Registered, Live, Suspended
<1>7. CASE Unwind(n)
  BY <1>3, <1>7 DEF Unwind, Live, Suspended
<1>8. CASE Cancelled(n)
  BY <1>3, <1>8 DEF Cancelled, Live, Suspended
<1>9. CASE SessionInfo(n)
  BY <1>3, <1>9 DEF SessionInfo, Live, Suspended
<1>10. CASE ErrorEvent(n)
  BY <1>10, TurnStutters DEF ErrorEvent, Live, Served
<1>11. CASE Crash(n)
  BY <1>3, <1>11 DEF Crash, Live, Suspended
<1>12. ASSUME NEW code \in {0, 1}, Exit(n, code) PROVE UNCHANGED Turn!vars
  BY <1>3, <1>12 DEF Exit, Live, Suspended
<1> QED
  BY <1>1, <1>2, <1>4, <1>5, <1>6, <1>7, <1>8, <1>9, <1>10, <1>11, <1>12
     DEF TaskStep, CliStep, CliExit

\* An admitted message takes the turn of a free tree or waits behind the others.
LEMMA AdmitTakesTurns ==
    ASSUME TypeOK, SoundInv, OneTask, NEW n \in Node, Admit(n)
    PROVE  Turn!Next
<1>1. arrival[n] # "admitted" /\ in_repo
  BY DEF Admit, Found
<1>2. task[n] = "none" /\ n \notin ToSet(queue) /\ n \notin Served
  BY <1>1 DEF SoundInv, AdmittedFirst, Queued, Served
<1>3. CASE is_processing
  <2>1. queue' = Append(queue, n) /\ task' = task
    BY <1>3 DEF Admit, EnqueueAndStart
  <2>2. Live' = Live /\ Served' = Served
    BY <2>1 DEF Live, Served
  <2>3. Turn!ToSet(queue) = ToSet(queue)
    BY DEF Turn!ToSet, ToSet
  <2>4. Turn!Submit(n)
    BY <1>2, <2>1, <2>2, <2>3 DEF Turn!Submit, Served
  <2> QED
    BY <2>4 DEF Turn!Next
<1>4. CASE ~is_processing
  <2>1. queue' = queue /\ task' = [task EXCEPT ![n] = "created"]
    BY <1>4 DEF Admit, EnqueueAndStart
  <2>2. Live = {}
    BY <1>1, <1>4 DEF OneTask
  <2>3. task'[n] = "created" /\ \A m \in Node \ {n} : task'[m] = task[m]
    BY <2>1 DEF TypeOK
  <2>4. Live' = {n} /\ Served' = Served \cup {n}
    BY <2>2, <2>3 DEF Live, Served
  <2>5. Turn!TakeAtOnce(n)
    BY <1>2, <2>1, <2>2, <2>4 DEF Turn!TakeAtOnce, Turn!Take, Served
  <2> QED
    BY <2>5 DEF Turn!Next
<1> QED
  BY <1>3, <1>4

LEMMA CommandTakesTurns ==
    ASSUME TypeOK,
           \/ \E n \in Node : Stop(n) \/ ClearBegin(n)
           \/ ClearBranch
           \/ ClearRoot
    PROVE  [Turn!Next]_(Turn!vars)
<1> USE DEF queueVars, taskVars, cmdVars
<1>1. ASSUME NEW n \in Node, Stop(n) PROVE Turn!Next
  BY <1>1, RemovalIsWithdrawal DEF Stop
<1>2. ASSUME NEW b \in Node, ClearBegin(b) PROVE Turn!Next
  BY <1>2, RemovalIsWithdrawal DEF ClearBegin
<1>3. CASE ClearBranch
  BY <1>3, TurnStutters DEF ClearBranch, Live, Served
<1>4. CASE ClearRoot
  <2>1. CASE Found(Root)
    <3>1. queue' = <<>> /\ task' = task
      BY <1>4, <2>1 DEF ClearRoot, CancelTree
    <3>2. Without(ToSet(queue)) = <<>>
      <4>1. Without(ToSet(queue)) \in Seq(Node) /\ ToSet(Without(ToSet(queue))) = {}
        BY QueueRemaining DEF Without, TypeOK
      <4> QED
        BY <4>1, QueueOfNobody
    <3> QED
      BY <3>1, <3>2, RemovalIsWithdrawal
  <2>2. CASE ~Found(Root)
    BY <1>4, <2>2, TurnStutters DEF ClearRoot, Live, Served
  <2> QED
    BY <2>1, <2>2
<1> QED
  BY <1>1, <1>2, <1>3, <1>4

LEMMA NextTakesTurns ==
    ASSUME ReplyCommandsOnly, TypeOK, SoundInv, StoreInv, [Next]_vars
    PROVE  [Turn!Next]_(Turn!vars)
<1> USE DEF treeVars, queueVars, taskVars, cmdVars
<1>0. OneTask
  BY DEF StoreInv
<1>1. ASSUME NEW n \in Node, Reject(n) \/ \E p \in Node : Arrive(n, p) PROVE UNCHANGED Turn!vars
  BY <1>1, TurnStutters DEF Reject, Arrive, Live, Served
<1>2. CASE UNCHANGED vars
  BY <1>2, TurnStutters DEF vars, Live, Served
<1>3. ~StopAll /\ ~ClearAll
  BY DEF StopAll, ClearAll, StopAllBegin, ReplyCommandsOnly
<1>4. ~StopAllKilled /\ ~ClearAllEnd
  BY DEF StopAllKilled, ClearAllEnd, StoreInv, Shape
<1>5. CASE UserStep \/ CommandStep
  BY <1>1, <1>3, <1>4, <1>5, CommandTakesTurns DEF UserStep, CommandStep
<1> QED
  BY <1>0, <1>1, <1>2, <1>5, AdmitTakesTurns, TaskTakesTurns DEF Next, HandlerStep

\* For any conversation, the queue of a tree is the abstract one: one message has
\* the turn, each has at most one, the others wait in the order of admission and
\* are only ever withdrawn by a command (queue_manager.py:240-330).
THEOREM TurnsAreTaken ==
    ASSUME ReplyCommandsOnly
    PROVE  Spec => TakesTurns
<1>1. Init => Turn!Init
  <2> SUFFICES ASSUME Init PROVE Turn!Init
    OBVIOUS
  <2>1. Live = {Root} /\ Served = {Root} /\ queue = <<>>
    BY TreeAssumption DEF Init, Live, Served, Suspended
  <2> QED
    BY <2>1, TreeAssumption DEF Turn!Init, Served
<1>2. TypeOK /\ SoundInv /\ StoreInv /\ [Next]_vars => [Turn!Next]_(Turn!vars)
  BY NextTakesTurns
<1> QED
  BY <1>1, <1>2, TypeInvariance, SoundInvariance, StoreInvariance, PTL DEF Spec, TakesTurns, Turn!Spec
=============================================================================

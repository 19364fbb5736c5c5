----------------------------- MODULE Transcript -----------------------------
(***************************************************************************)
(* messaging/transcript.py: what a chat message shows of a turn.  The      *)
(* buffer keeps the segments in order, the blocks open at each index, and  *)
(* a stack of the subagents (Task tools) whose result has not come: inside *)
(* one only tool calls are shown.  The events are those                    *)
(* messaging/event_parser.py makes of the CLI's lines: whole blocks, or    *)
(* blocks in pieces.                                                       *)
(*                                                                         *)
(* An id is a sequence of numbers, <<>> when the provider sends none; the  *)
(* first number is 0 for the stack's own markers, 1 for a Task, 2 for      *)
(* another tool.  Results may carry the id with a suffix.  Whether results *)
(* are themselves shown (show_tool_results) is left out.  No id is the     *)
(* beginning of an earlier one: ids match when one begins the other, and a *)
(* result could then take its own entry for another's.                     *)
(***************************************************************************)
EXTENDS Integers, Sequences, SequencesExt, FiniteSets

CONSTANTS
    TaskId,    \* the ids of a turn's Tasks, in the order they are made
    EventMax   \* events of a turn

ASSUME TranscriptAssumption ==
    /\ EventMax \in Nat
    /\ TaskId \in Seq(Seq(Nat))
    /\ \A i \in DOMAIN TaskId : TaskId[i] # <<>> /\ TaskId[i][1] = 1
    /\ \A i, j \in DOMAIN TaskId :
          i < j /\ IsPrefix(TaskId[j], TaskId[i]) => TaskId[j] = TaskId[i]

VARIABLES
    style,     \* which ids the provider sends: "all", "none" or "results"
    segments,  \* _segments: what each shows, by the number of its event
    open,      \* index -> the kind and segment of the block open there
    stack,     \* _subagent_stack
    names,     \* _tool_name_by_id: the ids of known tools, and which are Tasks
    running,   \* the Tasks without a result, in the order they were made
    tasks,     \* Tasks made
    block,     \* index -> the kind of block the CLI is sending there
    outer,     \* texts and thoughts sent while no Task ran
    inner,     \* those sent while one did
    nested,    \* every result so far was that of the latest Task
    events,    \* events applied
    over       \* the exit of the CLI has been seen

transcriptVars == <<style, segments, open, stack, names, running, tasks, block,
                    outer, inner, nested, events, over>>

\* Blocks come one after another; one index is enough for a block to meet the
\* one before it.
Index == {0}

Closed == [kind |-> "none", seg |-> 0]

Segment(kind, parts) == [kind |-> kind, parts |-> parts]

InSubagent == stack # <<>>

(***************************************************************************)
(* The stack of subagents.                                                 *)
(***************************************************************************)

\* _subagent_push: a Task without an id gets a marker.
Push(id) ==
    Append(stack, IF id = <<>> THEN <<0, Len(stack) + 1>> ELSE id)

\* _ids_roughly_match
Match(a, b) == a # <<>> /\ b # <<>> /\ (IsPrefix(a, b) \/ IsPrefix(b, a))

\* _subagent_pop: everything from the last matching entry on; without an id
\* only a marker on top.
Pop(id) ==
    IF id # <<>>
    THEN LET matching == {i \in DOMAIN stack : Match(stack[i], id)}
         IN  IF matching = {} THEN stack
             ELSE SubSeq(stack, 1, Max(matching) - 1)
    ELSE IF stack # <<>> /\ stack[Len(stack)][1] = 0 THEN Front(stack) ELSE stack

PopForResult_AnyId(id) ==
    LET popped == Pop(id)
    IN  IF popped = stack /\ stack # <<>> /\ stack[Len(stack)][1] = 0
        THEN Pop(<<>>) ELSE popped

\* The pop of a tool_result: a marker on top is also closed by the id of a Task
\* the buffer has not heard of, or knows as a Task.
PopForResult(id) ==
    LET popped == Pop(id)
        known == {k \in names : k.id = id}
    IN  IF /\ popped = stack /\ stack # <<>> /\ id # <<>>
           /\ stack[Len(stack)][1] = 0
           /\ \A k \in known : k.task
           /\ id[1] = 1
        THEN Pop(<<>>) ELSE popped

(***************************************************************************)
(* apply, by kind of event.                                                *)
(***************************************************************************)
Happens ==
    /\ ~over
    /\ events < EventMax
    /\ events' = events + 1
    /\ UNCHANGED <<style, over>>

Said(n) ==
    /\ outer' = IF running = <<>> THEN outer \cup {n} ELSE outer
    /\ inner' = IF running = <<>> THEN inner ELSE inner \cup {n}

\* text_chunk and thinking_chunk: they have no index, so each is a segment.
Chunk(kind) ==
    /\ Happens
    /\ Said(events')
    /\ segments' = IF InSubagent THEN segments
                   ELSE Append(segments, Segment(kind, <<events'>>))
    /\ UNCHANGED <<open, stack, names, running, tasks, block, nested>>

\* text_start and thinking_start: a block still open at the index is closed.
StartBlock(kind, i) ==
    /\ Happens
    /\ block' = [block EXCEPT ![i] = kind]
    /\ segments' = IF InSubagent THEN segments ELSE Append(segments, Segment(kind, <<>>))
    /\ open' = IF InSubagent THEN open
               ELSE [open EXCEPT ![i] = [kind |-> kind, seg |-> Len(segments')]]
    /\ UNCHANGED <<stack, names, running, tasks, outer, inner, nested>>

\* text_delta and thinking_delta: without an open block of that kind they start
\* a segment of their own.
Delta(kind, i) ==
    /\ Happens
    /\ block[i] = kind
    /\ Said(events')
    /\ IF InSubagent
       THEN UNCHANGED <<segments, open>>
       ELSE IF open[i].kind = kind
            THEN /\ segments' = [segments EXCEPT ![open[i].seg].parts = Append(@, events')]
                 /\ UNCHANGED open
            ELSE /\ segments' = Append(segments, Segment(kind, <<events'>>))
                 /\ open' = [open EXCEPT ![i] = [kind |-> kind, seg |-> Len(segments')]]
    /\ UNCHANGED <<stack, names, running, tasks, block, nested>>

StopBlock(i) ==
    /\ Happens
    /\ block[i] # "none"
    /\ block' = [block EXCEPT ![i] = "none"]
    /\ open' = [open EXCEPT ![i] = Closed]
    /\ UNCHANGED <<segments, stack, names, running, tasks, outer, inner, nested>>

Known(id, task) == IF id = <<>> THEN names ELSE names \cup {[id |-> id, task |-> task]}

\* tool_use and tool_use_start of a Task; the latter closes what is open at its
\* index and opens nothing there (at = Index \cup {-1}).
StartTask(i) ==
    LET id == IF style = "all" THEN TaskId[tasks + 1] ELSE <<>>
    IN  /\ Happens
        /\ tasks < Len(TaskId)
        /\ tasks' = tasks + 1
        /\ running' = Append(running, tasks + 1)
        /\ names' = Known(id, TRUE)
        /\ segments' = Append(segments, Segment("subagent", <<>>))
        /\ stack' = Push(id)
        /\ open' = [j \in Index |-> IF j = i THEN Closed ELSE open[j]]
        /\ block' = [j \in Index |-> IF j = i THEN "tool" ELSE block[j]]
        /\ UNCHANGED <<outer, inner, nested>>

\* The only other tool, called again and again: inside a subagent it becomes the
\* subagent's current tool instead of a segment.
CallId == IF style = "all" THEN <<2, 1>> ELSE <<>>

StartTool(i) ==
    /\ Happens
    /\ names' = Known(CallId, FALSE)
    /\ segments' = IF InSubagent THEN segments
                   ELSE Append(segments, Segment("tool_call", <<>>))
    /\ open' = [j \in Index |->
                   IF j = i THEN [kind |-> "tool", seg |-> Len(segments')] ELSE open[j]]
    /\ block' = [j \in Index |-> IF j = i THEN "tool" ELSE block[j]]
    /\ UNCHANGED <<stack, running, tasks, outer, inner, nested>>

\* The result of the Task running[k], with or without a suffix to its id.
TaskResult(k, suffix) ==
    LET t == running[k]
        id == IF style = "none" THEN <<>> ELSE TaskId[t] \o suffix
    IN  /\ Happens
        /\ running' = RemoveAt(running, k)
        /\ nested' = (nested /\ k = Len(running))
        /\ stack' = PopForResult(id)
        /\ UNCHANGED <<segments, open, names, tasks, block, outer, inner>>

ToolResult ==
    /\ Happens
    /\ stack' = PopForResult(IF style = "none" THEN <<>> ELSE <<2, 1>>)
    /\ nested' = (nested /\ (style = "none" => running = <<>>))
    /\ UNCHANGED <<segments, open, names, running, tasks, block, outer, inner>>

\* An exit: error and complete; the text "Done." stands for a turn in which
\* nothing was shown (process_parsed_cli_event).
Complete(code) ==
    /\ ~over
    /\ over' = TRUE
    /\ segments' = IF code # 0 THEN Append(segments, Segment("error", <<>>))
                   ELSE IF events = 0 THEN <<Segment("text", <<0>>)>> ELSE segments
    /\ UNCHANGED <<style, open, stack, names, running, tasks, block, outer, inner,
                   nested, events>>

TranscriptInit ==
    /\ style \in {"all", "none", "results"}
    /\ segments = <<>>
    /\ open = [i \in Index |-> Closed]
    /\ stack = <<>>
    /\ names = {}
    /\ running = <<>>
    /\ tasks = 0
    /\ block = [i \in Index |-> "none"]
    /\ outer = {}
    /\ inner = {}
    /\ nested = TRUE
    /\ events = 0
    /\ over = FALSE

TranscriptNext ==
    \/ \E kind \in {"text", "thinking"} : Chunk(kind)
    \/ \E kind \in {"text", "thinking"}, i \in Index : StartBlock(kind, i) \/ Delta(kind, i)
    \/ \E i \in Index : StopBlock(i)
    \/ \E i \in Index \cup {-1} : StartTask(i) \/ StartTool(i)
    \/ \E k \in DOMAIN running, suffix \in {<<>>, <<9>>} : TaskResult(k, suffix)
    \/ ToolResult
    \/ \E code \in {0, 1} : Complete(code)

(***************************************************************************)
(* Properties.                                                             *)
(***************************************************************************)

\* Where the chat message shows the turn's texts and thoughts: a segment and a
\* place in it.
Places(shown) == UNION {{<<i, k>> : k \in DOMAIN shown[i].parts} : i \in DOMAIN shown}

Part(shown, p) == shown[p[1]].parts[p[2]]

\* Nothing said outside a Task is swallowed or shown twice, in whichever order
\* the results come, with suffixed ids, ids no Task had, or none; and as long as
\* they come innermost first nothing said inside a Task is shown
\* (transcript.py:347 "inside a Task/subagent, we only show tool calls/results").
ShownIsOuter ==
    /\ \A n \in outer : \E p \in Places(segments) : Part(segments, p) = n
    /\ \A p, q \in Places(segments) : Part(segments, p) = Part(segments, q) => p = q
    /\ nested => \A p \in Places(segments) : Part(segments, p) \in outer \cup {0}
=============================================================================

----------------------------- MODULE MCChatStream -----------------------------
(***************************************************************************)
(* The OpenAI transport with short answers and up to two tool calls, and,  *)
(* each by itself, what it leaves to others: tool calls that are found in  *)
(* the text, the mending of a broken answer, and NIM's names for the       *)
(* parameters of tools.                                                    *)
(***************************************************************************)
EXTENDS ChatStream, ToolText, Recovery, NimTools, TLC

Words == [kind |-> "say"]
Item == [kind |-> "item"]
Call(n, gap) == [kind |-> "call", arguments |-> n, gap |-> gap]

MCAnswer ==
    UNION {[1..n -> {Words, Item, [kind |-> "control"], [kind |-> "web"], Call(0, FALSE),
                     Call(2, FALSE), Call(2, TRUE)}] : n \in {1, 2}}

\* Calls as models write them, a tag to a line.
Lines == {<<Call(2, TRUE)>>, <<Words, Call(1, TRUE), Words>>}

\* The objects of a tool whose schema wants one or two values, or an object.
Objects == {<<"{", "a", "}">>, <<"{", "a", "blank", "a", "}">>, <<"{", "a", "a", "}">>,
            <<"{", "{", "a", "}", "}">>}

Schema(properties, required, items) ==
    [kind |-> "object", properties |-> properties, required |-> required, items |-> items]

Of(names, schema) == [n \in names |-> schema]

Scalar == Schema(Of({}, 0), {}, {})

Boolean == [Scalar EXCEPT !.kind = "boolean"]

\* Parameters that need another name, have the name it would get, or neither.
Parameters == {"type", "_fcc_arg_type", "path"}

Inner ==
    {Scalar, Boolean}
        \cup {Schema(Of(names, Scalar), required, {}) :
                 names \in (SUBSET Parameters) \ {{}}, required \in {{}, {"type"}}}

MCTool ==
    {Schema([n \in names |-> IF n = "path" THEN inner ELSE Scalar], required, items) :
        names \in (SUBSET Parameters) \ {{}}, inner \in Inner, required \in {{}, {"type"}},
        items \in {{}, {Schema(Of({"type"}, Scalar), {"type"}, {})}}}

VARIABLE part \* which of them this behaviour is about

MCInit ==
    /\ part \in {"stream", "tools", "recovery", "nim"}
    /\ IF part = "stream" THEN thinking \in BOOLEAN ELSE thinking = FALSE
    /\ IF part = "tools" THEN segments \in Answer ELSE segments = <<Words>>
    /\ IF part = "recovery" THEN broken \in {"text", "tool"}
       ELSE broken = "text" /\ emitted = <<>>
    /\ IF part = "nim" THEN tool \in Tool ELSE tool = Schema(Of({"path"}, Scalar), {}, {})
    /\ Init /\ ToolTextInit /\ RecoveryInit /\ NimInit

Stream == part = "stream" /\ Next
    /\ UNCHANGED <<part, toolTextVars, recoveryVars, nimVars>>

FindTools == part = "tools" /\ ToolTextNext
    /\ UNCHANGED <<part, vars, recoveryVars, nimVars>>

Mend == part = "recovery" /\ RecoveryNext
    /\ UNCHANGED <<part, vars, toolTextVars, nimVars>>

AskNim == part = "nim" /\ NimNext
    /\ UNCHANGED <<part, vars, toolTextVars, recoveryVars>>

MCSpec ==
    /\ MCInit
    /\ [][Stream \/ FindTools \/ Mend \/ AskNim]_<<part, vars, toolTextVars,
            recoveryVars, nimVars>>
    /\ StreamFairness
=============================================================================

CONSTANTS
    ChunkMax = 3
    ToolMax = 2
    MaxRetries = 1
    Answer <- Lines
    Cut = {1, 2, 3, 4, 7}
    Patience = 5
    Letter = {"a", "b"}
    TextMax = 5
    Standalone = 1
    Piece = {"{", "}", "a", "blank"}
    WholeObject <- Objects
    Tool <- MCTool
    Field = {"reasoning_budget", "chat_template", "reasoning_content"}
SPECIFICATION MCSpec
INVARIANTS CutsLoseNoArgument
CHECK_DEADLOCK FALSE

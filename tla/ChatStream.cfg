CONSTANTS
    ChunkMax = 3
    ToolMax = 2
    MaxRetries = 1
    Answer <- MCAnswer
    Cut = {1, 2, 3, 4, 7}
    Patience = 5
    Letter = {"a", "b"}
    TextMax = 5
    Standalone = 1
    Piece = {"{", "}", "a", "blank"}
    WholeObject <- Objects
    Tool <- MCTool
    Field = {"reasoning_budget", "chat_template", "reasoning_content"}
SPECIFICATION MCSpec
INVARIANTS StreamIsWhole TextIsParsedOnce MendedOnce ArgumentsComeBack
PROPERTIES StreamEnds
CHECK_DEADLOCK FALSE

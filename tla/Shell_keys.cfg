SPECIFICATION Spec
CONSTANTS
    H = 3
    N = 3
    Letters <- MCLetters
    CMDS <- MCCommands
    Quit = "quit"
INVARIANTS
    LengthIsCounted
    OverrunInLastRow
PROPERTIES
    PastIsKept
    ImplementsEditor
CHECK_DEADLOCK FALSE

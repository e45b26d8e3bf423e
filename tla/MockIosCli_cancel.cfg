SPECIFICATION Spec
CONSTANTS
    Commands <- AllCommands
    Answers <- AnswersTo
    LineEnds <- EveryLineEnd
    CancelKeys <- CtrlCOnly
    SplitLineEnds = FALSE
INVARIANTS
    ScreenIsTrue
CHECK_DEADLOCK FALSE

SPECIFICATION Spec
CONSTANTS
    Commands <- AllCommands
    Answers <- AnswersTo
    LineEnds <- CrLf
    CancelKeys <- NoKeys
    SplitLineEnds = TRUE
INVARIANTS
    LinesMeetTheirQuestion
CHECK_DEADLOCK FALSE

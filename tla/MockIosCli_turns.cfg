SPECIFICATION FairSpec
CONSTANTS
    Commands <- AllCommands
    Answers <- AnswersTo
    LineEnds <- EveryLineEnd
    CancelKeys <- NoKeys
    SplitLineEnds = FALSE
INVARIANTS
    LinesMeetTheirQuestion
    ScreenIsTrue
    PrivilegeIsEarned
PROPERTIES
    ReloadIsMeant
    EveryLineAnswered
CHECK_DEADLOCK FALSE

SPECIFICATION OneTopic
CONSTANTS
    KB <- MCKB
    Keys <- MCKeys
    Values = {"unstated", "yes", "no", "q118"}
    Axes = {}
    Messages <- MCMessages
    MaxIter = 2
    RecursionLimit = 32
    Choices = {"diff_completed_steps", "check_combination", "none"}
INVARIANTS
    LoopTypeOK
    WithinLimits
    SaysTheEnginesAnswer
    ReflexComesFirst
PROPERTIES
    ConversesAsPromised
    TurnEnds

SPECIFICATION OneScenario
CONSTANTS
    SessionIds = {"s1", "s2"}
    Numbers = {"A", "B", "C"}
    Requests <- MCRequests
    Threads = 3
INVARIANTS
    BarSettles
PROPERTIES
    TurnsAreOneConversation
    EveryRequestAnswered
    SwapKeepsAttribution
    TurnJudgedOnItsBar
CHECK_DEADLOCK FALSE

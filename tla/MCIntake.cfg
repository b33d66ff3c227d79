SPECIFICATION OneTopic
CONSTANTS
    KB <- MCKB
    Keys <- MCKeys
    Values = {"unstated", "yes", "no", "chba_defective", "qv61_defective"}
    Axes = {}
    Precedence <- MCPrecedence
    Inputs <- MCInputs
    Messages <- MCMessages
INVARIANTS
    HandsOverWellParsed
    GuidedOnlyIfVouched
    HubNeverTakesOver
PROPERTIES
    AliasedSecondActRefused
    NeverAskedTwice

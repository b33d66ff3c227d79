SPECIFICATION Guided
CONSTANTS
    KB <- MCKB
    Keys <- MCKeys
    Values = {"unstated", "yes", "no", "fitted", "not_fitted", "tm2"}
    Axes = {"loco_rb"}
    Messages = {}
PROPERTIES
    GuidanceEnds
CHECK_DEADLOCK FALSE

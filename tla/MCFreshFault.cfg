SPECIFICATION RetrySpec
CONSTANTS
    KB <- MCKB
    Keys <- MCKeys
    Values = {"unstated", "yes", "no"}
    Axes = {}
    Messages <- MCMessages
PROPERTIES
    FreshFaultIsNotConfirmed

SPECIFICATION OneSituation
CONSTANTS
    KB <- MCKB
    Keys <- MCKeys
    Values = {"unstated", "yes", "no", "fitted", "not_fitted", "tm2"}
    Axes = {"loco_rb"}
    Messages <- MCMessages
INVARIANTS
    TypeOK
    ResetOnlyAsPermitted
    ResetNeverAPlainStep
    RecurrenceRefused
    HazardOnlyWithPreconditions
    IntentIsAnswered
    GuessIsConfirmedFirst
    AskedStepIsDue
    ConfigAskedWhenItDecides
    ConfirmMeansDone
    AnswerIsStable
PROPERTIES
    SecondActRefused
    BookkeepingKept
    IdentitySettled
    RerouteCarriesClaims

\* Two overlapping requests; a shop that comes and goes.
SPECIFICATION Spec
CONSTANTS
    r1 = r1
    r2 = r2
    uninstalled = uninstalled
    Procs = {r1, r2}
    Topics = {uninstalled}
    Uninstalled = uninstalled
    Texts <- SomeTexts
    MaxTokens = 2
    MaxRows = 2
    MaxChats = 2
SYMMETRY Symmetry
INVARIANTS
    NothingOutlivesInstall
    StaleOnlyIfOvertaken
    StatusesAgree
    SummaryInThread
    TroubleReachesHuman
CHECK_DEADLOCK FALSE

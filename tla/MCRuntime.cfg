SPECIFICATION RuntimeSpec
CONSTANTS
    Thread = {t1, t2}
    MaxBindings = 2
    Failing <- MCFailing
    InterfaceMayFail = TRUE
    Builds <- MCBuilds
    Given <- MCGiven
    BACKOFF_MAX = 3
    TIMER_DECR = 2
CHECK_DEADLOCK FALSE
INVARIANTS Balanced BuiltInOrder AskedForCollector NothingLeftBehind SamplesSpaced UnitsCollectedOnce
PROPERTIES BindingsNest CallsReturn

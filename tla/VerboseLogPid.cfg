SPECIFICATION LogSpec
CONSTANTS
    Pid = {"_1", "_2", "_3"}
    FirstPid = "_1"
    Names <- MCNames
    Streams <- MCStreams
    MaxConfigures = 2
    MaxGenerations = 2
INVARIANT PidBeforeExtension
CHECK_DEADLOCK FALSE

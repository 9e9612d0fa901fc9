SPECIFICATION LogSpec
CONSTANTS
    Pid = {"_1", "_2", "_3"}
    FirstPid = "_1"
    Names <- MCNames
    Streams <- MCStreams
    MaxConfigures = 2
    MaxGenerations = 2
INVARIANTS OwnLog NamesAreNotLost
CHECK_DEADLOCK FALSE

SPECIFICATION SlotsSpec
CONSTANT N = 3
INVARIANT SlotsRestored
CHECK_DEADLOCK FALSE

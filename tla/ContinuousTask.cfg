SPECIFICATION TaskSpec
CONSTANT MaxCalls = 4
CONSTANT CanFail = {"start", "stop"}
INVARIANT RunningIsKnown
INVARIANT TaskWhilePlaying

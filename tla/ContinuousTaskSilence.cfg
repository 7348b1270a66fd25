SPECIFICATION TaskSpec
CONSTANT MaxCalls = 3
CONSTANT CanFail = {}
INVARIANT NoTaskInSilence

SPECIFICATION FairSpec
CONSTANT Silent = {"PAUSED", "STOPPED", "ERROR"}
INVARIANT SilenceIsShown
PROPERTY PlayingIsShown

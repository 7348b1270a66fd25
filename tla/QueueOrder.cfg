SPECIFICATION FairSpec
CONSTANT MaxSize = 4
INVARIANT TypeOK
INVARIANT NothingTwice
INVARIANT StopsAfterAll
PROPERTY PrevUndoesNext
PROPERTY PlaybackEnds

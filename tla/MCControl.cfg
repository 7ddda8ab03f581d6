SPECIFICATION FairSpec
INVARIANTS TypeOK StartedUntilDoneUnlessRaced FlushOnlyWhenStopped
PROPERTIES LossStopsDmaUnlessRaced StartRecovers

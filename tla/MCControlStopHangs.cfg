SPECIFICATION FairSpec
PROPERTY LossStopsDma

SPECIFICATION Spec
INVARIANT StartedUntilDone

SPECIFICATION Spec
INVARIANT MayBeRun

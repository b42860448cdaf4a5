SPECIFICATION Spec
INVARIANT StopsOnlyOnFailure

SPECIFICATION Spec
INVARIANT ConfirmedCleaned

SPECIFICATION Spec
CONSTANT Settings <- MCSettings
INVARIANTS NilMeansAccepted ExhaustedMeansAllSent PermanentMeansRefused
PROPERTY ImplementsContract
\* one call of Notify: the model stops when it has returned
CHECK_DEADLOCK FALSE

SPECIFICATION Spec
CONSTANT
    Meddling = TRUE
INVARIANTS
    NoTraceWhenWithheld
    RestoreIsChecked
PROPERTY
    ImplementsContract

SPECIFICATION Spec
CONSTANT
    Meddling = FALSE
INVARIANT
    PristineBackup

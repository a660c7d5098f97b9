CONSTANTS
    Experiments <- MCExperiments
    Batches <- MCBatches
SPECIFICATION Spec
CHECK_DEADLOCK FALSE
INVARIANTS
    ServedByOwnModel
    FailsBeforeRowsExist

CONSTANTS
    Datasets <- SmallDatasets
    MayFail = {TRUE, FALSE}
SPECIFICATION FairSpec
INVARIANTS
    SplitsKeepBothClasses
    PackageIsBacked
PROPERTIES
    TrainingEnds
    QuietTrainingRegisters
CHECK_DEADLOCK FALSE

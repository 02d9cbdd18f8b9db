SPECIFICATION Spec
CONSTANTS
    Sectors <- MCSectors
    Scenes <- MCScenes
    Prompts <- MCPrompts
    Operations <- MCOperations
    MaxOperations = 2
    MaxEdits = 3
INVARIANTS
    PlanFollowsScene
    LoweringIsAccepted
PROPERTIES
    AppliedMeansDone
    UntouchedStays
CHECK_DEADLOCK FALSE
